---- MODULE Spec2Model ----
(***************************************************************************)
(* State-machine model of the Hanks-Server content services: PostService,  *)
(* CommentService, UserRelationService and CategoryService, with the       *)
(* Mongoose schema hooks of Post and Comment that run inside their writes. *)
(* Likes, views, saved posts, post deletion, the comment listings and the  *)
(* comment deletion of controllers/comment are part of it.                 *)
(*                                                                         *)
(* A document collection is a function from the ids allocated so far to    *)
(* records.  Dates are integers on a discrete clock `now`; a null date or  *)
(* reference is NoDate / NoRef.  Every service call is one action and sets *)
(* lastOp to what the call returned or threw.  The interleaved             *)
(* specification splits the read-modify-write post operations into their   *)
(* read (findById + checks) and their write (save / findByIdAndUpdate).    *)
(***************************************************************************)
EXTENDS Integers, Sequences, FiniteSets, TLC

VARIABLES now, posts, postSeq, comments, commentSeq, following, followers, cats, catSeq,
          saved, pending, likeReq, notes, followReq, lastOp

vars == <<now, posts, postSeq, comments, commentSeq, following, followers, cats, catSeq,
          saved, pending, likeReq, notes, followReq, lastOp>>

-----------------------------------------------------------------------------
(* Bounds of the model *)
MaxPosts == 2
MaxTime == 3
MaxUsers == 3
MaxComments == 3
MaxDrift == 1
MaxCats == 3
MaxProcs == 2
MaxRacePosts == 1
MaxThreadPosts == 1
MaxActors == 2
MaxOrderLen == 2
MaxLikedComments == 1
MaxViews == 2
MaxLikeNotes == 2
MaxNotes == 3

(* null publishDate (Post.ts default: null) and null references *)
NoDate == 0
NoRef == 0

PostIds == 1..MaxPosts
Users == 1..MaxUsers
Dates == 1..MaxTime
CommentIds == 1..MaxComments
CatIds == 1..MaxCats
Procs == 1..MaxProcs
Actors == 1..MaxActors

DRAFT == "draft"
PUBLISHED == "published"
SCHEDULED == "scheduled"
PostStatus == {DRAFT, PUBLISHED, SCHEDULED}

(* what a service call returned: ok, or the AppError status it threw *)
OK == "ok"
NotFound == "404"
Forbidden == "403"
BadRequest == "400"
ServerError == "500"

(* on: the document the call was about, when a claim needs it *)
OpOn(op, res, prev, n, on) == [op |-> op, res |-> res, prev |-> prev, n |-> n, on |-> on]

Op(op, res, prev, n) == OpOn(op, res, prev, n, NoRef)

-----------------------------------------------------------------------------
(* Post documents *)

(* PostSchema.pre('save'): a published post without a date gets now *)
PostPreSave(doc, t) ==
  IF doc.status = PUBLISHED /\ doc.publishDate = NoDate
    THEN [doc EXCEPT !.publishDate = t]
    ELSE doc

(* a $set of status and/or publishDate; "" and setDate = FALSE leave the field alone *)
Delta(status, setDate, date) == [status |-> status, setDate |-> setDate, publishDate |-> date]

NoDelta == Delta("", FALSE, NoDate)

ApplyDelta(doc, d) ==
  [doc EXCEPT !.status = IF d.status = "" THEN @ ELSE d.status,
              !.publishDate = IF d.setDate THEN d.publishDate ELSE @]

(* document.save(): only the paths whose value differs from the loaded one are written *)
DirtyDelta(orig, doc) ==
  Delta(IF doc.status # orig.status THEN doc.status ELSE "",
        doc.publishDate # orig.publishDate,
        doc.publishDate)

Plan(res, delta) == [res |-> res, delta |-> delta]

(* an empty likes array; likes[u] is how many times user u is in the array *)
NoLikes == [u \in Actors |-> 0]

(* a request between its read and its write: the post it loaded and the $set it will send *)
Idle == [op |-> "idle", p |-> NoRef, delta |-> NoDelta]

(* a like or unlike request between its findById and its save: the call, the document,
   the user, the likes array it loaded, and whether a versioned write has reached the
   document since it was loaded *)
NoLikeReq == [op |-> "idle", on |-> NoRef, user |-> NoRef, loaded |-> NoLikes, stale |-> FALSE]

(* PostService.createPost: the document it inserts *)
NewPost(author, category, status, date, t) ==
  PostPreSave(
    [author |-> author,
     category |-> category,
     status |-> IF status = "" THEN DRAFT ELSE status,
     publishDate |-> IF status = SCHEDULED /\ date # NoDate THEN date
                     ELSE IF status = PUBLISHED THEN t
                     ELSE NoDate,
     commentCount |-> 0,
     viewCount |-> 0,
     likeCount |-> 0,
     likes |-> NoLikes],
    t)

(* PostService.updatePost: the checks and the updateData it builds *)
UpdatePlan(doc, actor, status, date, t) ==
  IF doc.author # actor THEN Plan(Forbidden, NoDelta)
  ELSE IF status = "" THEN Plan(OK, NoDelta)
  ELSE IF status = PUBLISHED /\ doc.status # PUBLISHED THEN Plan(OK, Delta(status, TRUE, t))
  ELSE IF status = SCHEDULED
    THEN Plan(OK, Delta(status, TRUE, IF date # NoDate THEN date ELSE t))
  ELSE Plan(OK, Delta(status, FALSE, NoDate))

(* PostService.publishPost *)
PublishPlan(doc, actor, t) ==
  IF doc.author # actor THEN Plan(Forbidden, NoDelta)
  ELSE IF doc.status = PUBLISHED THEN Plan(BadRequest, NoDelta)
  ELSE Plan(OK, DirtyDelta(doc, PostPreSave([doc EXCEPT !.status = PUBLISHED, !.publishDate = t], t)))

(* PostService.unpublishPost *)
UnpublishStatusScheduled == SCHEDULED

UnpublishStatus == DRAFT

UnpublishPlanByAnyone(doc, actor, t) ==
  Plan(OK, DirtyDelta(doc, PostPreSave([doc EXCEPT !.status = UnpublishStatus], t)))

UnpublishPlan(doc, actor, t) ==
  IF doc.author # actor THEN Plan(Forbidden, NoDelta)
  ELSE Plan(OK, DirtyDelta(doc, PostPreSave([doc EXCEPT !.status = UnpublishStatus], t)))

(* PostService.schedulePost *)
SchedulePlan(doc, actor, date, t) ==
  IF doc.author # actor THEN Plan(Forbidden, NoDelta)
  ELSE IF date <= t THEN Plan(BadRequest, NoDelta)
  ELSE Plan(OK, DirtyDelta(doc, PostPreSave([doc EXCEPT !.status = SCHEDULED, !.publishDate = date], t)))

(* PostService.publishScheduledPosts: the filter of its updateMany *)
SweepMatchesAnyDate(doc, t) == doc.status = SCHEDULED

SweepMatchesStrict(doc, t) ==
  doc.status = SCHEDULED /\ doc.publishDate # NoDate /\ doc.publishDate < t

SweepMatches(doc, t) ==
  doc.status = SCHEDULED /\ doc.publishDate # NoDate /\ doc.publishDate <= t

(* a followUser / unfollowUser call between its awaits: nothing in flight *)
NoFollowReq == [op |-> "idle", a |-> NoRef, b |-> NoRef, pc |-> "done"]

-----------------------------------------------------------------------------
Init ==
  /\ now = 1
  /\ posts = <<>>
  /\ postSeq = 0
  /\ comments = <<>>
  /\ commentSeq = 0
  /\ following = [u \in Users |-> {}]
  /\ followers = [u \in Users |-> {}]
  /\ cats = <<>>
  /\ catSeq = 0
  /\ saved = [u \in Actors |-> {}]
  /\ pending = [i \in Procs |-> Idle]
  /\ likeReq = [i \in Procs |-> NoLikeReq]
  /\ notes = <<>>
  /\ followReq = [i \in Procs |-> NoFollowReq]
  /\ lastOp = Op("init", OK, "", 0)

(* the clock *)
Tick ==
  /\ now < MaxTime
  /\ now' = now + 1
  /\ lastOp' = Op("tick", OK, "", 0)
  /\ UNCHANGED <<posts, postSeq, comments, commentSeq, following, followers, cats, catSeq,
                 saved, pending, likeReq, notes, followReq>>

-----------------------------------------------------------------------------
(* Categories *)

CatNames == {"News", "news", "Dev", "Art"}

(* utils/slugify on the names of the model: lower-cased, trimmed, dashes for gaps *)
Slugify(name) ==
  CASE name = "News" -> "news"
    [] name = "news" -> "news"
    [] name = "Dev" -> "dev"
    [] name = "Art" -> "art"

(* CategorySchema.pre('save'): the slug it stores when the name was modified *)
SaveSlug(name) == Slugify(name)

notCats == <<now, posts, postSeq, comments, commentSeq, following, followers, saved, pending, likeReq,
  notes, followReq>>

CatResult(op, res) ==
  /\ lastOp' = Op(op, res, "", 0)
  /\ UNCHANGED <<cats, catSeq>>

(* CategoryService.createCategory *)
CreateCategory(name, parent) ==
  /\ catSeq < MaxCats
  /\ IF \E c \in DOMAIN cats : cats[c].name = name THEN CatResult("createCategory", BadRequest)
     ELSE IF \E c \in DOMAIN cats : cats[c].slug = Slugify(name)
       THEN CatResult("createCategory", BadRequest)
     ELSE IF parent # NoRef /\ parent \notin DOMAIN cats THEN CatResult("createCategory", NotFound)
     ELSE /\ cats' = cats @@ ((catSeq + 1) :>
                       [name |-> name, slug |-> SaveSlug(name), parentCategory |-> parent, order |-> 0])
          /\ catSeq' = catSeq + 1
          /\ lastOp' = Op("createCategory", OK, "", 0)
  /\ UNCHANGED notCats

(* the one category that the post and comment specifications create for their posts *)
CreateFirstCategory == catSeq = 0 /\ CreateCategory("News", NoRef)

(* CategoryService.updateCategory: the while loop over the proposed parent's ancestors.
   "cycle": the category is among them; "clear": the chain ended; "loops": the chain
   runs into a cycle that does not hold the category, and the loop never ends *)
AncestorWalkParentOnly(cur, id, seen) ==
  IF cats[cur].parentCategory = id THEN "cycle" ELSE "clear"

RECURSIVE AncestorWalk(_, _, _)
AncestorWalk(cur, id, seen) ==
  LET up == cats[cur].parentCategory IN
  IF up = NoRef THEN "clear"
  ELSE IF up = id THEN "cycle"
  ELSE IF up \notin DOMAIN cats THEN "clear"
  ELSE IF up \in seen THEN "loops"
  ELSE AncestorWalk(up, id, seen \cup {up})

(* what updateCategory returned, for which category and which data.parent *)
UpdateOp(res, id, hasParent, parent) ==
  OpOn("updateCategory", res, "", IF hasParent THEN parent ELSE NoRef, id)

UpdateResult(res, id, hasParent, parent) ==
  /\ lastOp' = UpdateOp(res, id, hasParent, parent)
  /\ UNCHANGED <<cats, catSeq>>

(* CategoryService.updateCategory; name "" and hasParent FALSE are fields not supplied *)
UpdateCategory(id, name, hasParent, parent) ==
  /\ IF id \notin DOMAIN cats THEN UpdateResult(NotFound, id, hasParent, parent)
     ELSE IF /\ name # "" /\ name # cats[id].name
             /\ \E c \in DOMAIN cats \ {id} : cats[c].name = name
       THEN UpdateResult(BadRequest, id, hasParent, parent)
     ELSE IF /\ name # "" /\ name # cats[id].name
             /\ \E c \in DOMAIN cats \ {id} : cats[c].slug = Slugify(name)
       THEN UpdateResult(BadRequest, id, hasParent, parent)
     ELSE IF hasParent /\ parent = id THEN UpdateResult(BadRequest, id, hasParent, parent)
     ELSE IF hasParent /\ parent # NoRef /\ parent \notin DOMAIN cats
       THEN UpdateResult(NotFound, id, hasParent, parent)
     ELSE IF hasParent /\ parent # NoRef /\ AncestorWalk(parent, id, {parent}) = "cycle"
       THEN UpdateResult(BadRequest, id, hasParent, parent)
     ELSE /\ IF hasParent /\ parent # NoRef
               THEN AncestorWalk(parent, id, {parent}) = "clear"
               ELSE TRUE
          /\ cats' = [cats EXCEPT
                        ![id].name = IF name # "" THEN name ELSE @,
                        ![id].slug = IF name # "" /\ name # cats[id].name THEN SaveSlug(name) ELSE @,
                        ![id].parentCategory = IF hasParent THEN parent ELSE @]
          /\ catSeq' = catSeq
          /\ lastOp' = UpdateOp(OK, id, hasParent, parent)
  /\ UNCHANGED notCats

(* CategoryService.deleteCategory *)
DeleteCategory(id) ==
  /\ IF id \notin DOMAIN cats THEN CatResult("deleteCategory", NotFound)
     ELSE IF \E c \in DOMAIN cats : cats[c].parentCategory = id
       THEN CatResult("deleteCategory", BadRequest)
     ELSE IF \E p \in DOMAIN posts : posts[p].category = id
       THEN CatResult("deleteCategory", BadRequest)
     ELSE /\ cats' = [c \in DOMAIN cats \ {id} |-> cats[c]]
          /\ catSeq' = catSeq
          /\ lastOp' = Op("deleteCategory", OK, "", 0)
  /\ UNCHANGED notCats

(* CategoryService.updateCategoryOrder: the loop over the ids, one findByIdAndUpdate
   each, in a transaction that a missing id aborts; hasParent FALSE is parentId not
   supplied, parent NoRef is parentId null or '' *)
RECURSIVE Reordered(_, _, _, _, _)
Reordered(cs, ids, k, setParent, parent) ==
  IF k > Len(ids) THEN cs
  ELSE Reordered([cs EXCEPT ![ids[k]].order = k - 1,
                            ![ids[k]].parentCategory = IF setParent THEN parent ELSE @],
                 ids, k + 1, setParent, parent)

(* what updateCategoryOrder returned, for which id list and which parentId: prev says
   whether parentId was supplied *)
OrderOp(res, ids, hasParent, parent) ==
  OpOn("updateCategoryOrder", res, IF hasParent THEN "parentId" ELSE "", parent, ids)

(* parentId null or '' puts parentCategory: undefined in the update document; whether
   that key is dropped or written as null is decided by the installed Mongoose, which
   the repository does not pin: strip is that choice *)
OrderResult(ids) ==
  IF \E k \in 1..Len(ids) : ids[k] \notin DOMAIN cats THEN NotFound ELSE OK

OrderWrites(ids, hasParent, parent, strip) ==
  /\ cats' = IF OrderResult(ids) = OK
               THEN Reordered(cats, ids, 1, hasParent /\ (parent # NoRef \/ ~strip), parent)
               ELSE cats
  /\ UNCHANGED <<catSeq, notCats>>

UpdateCategoryOrder(ids, hasParent, parent, strip) ==
  /\ OrderWrites(ids, hasParent, parent, strip)
  /\ lastOp' = Op("updateCategoryOrder", OrderResult(ids), "", 0)

(* the same call, with its arguments kept in lastOp *)
UpdateCategoryOrderOf(ids, hasParent, parent, strip) ==
  /\ OrderWrites(ids, hasParent, parent, strip)
  /\ lastOp' = OrderOp(OrderResult(ids), ids, hasParent, parent)

(* the id lists of a reorder request: up to MaxOrderLen ids, none twice *)
OrderLists ==
  {ids \in UNION {[1..n -> CatIds] : n \in 0..MaxOrderLen} :
     \A i, j \in DOMAIN ids : i # j => ids[i] # ids[j]}

NextCategory ==
  \/ \E n \in CatNames, par \in CatIds \cup {NoRef} : CreateCategory(n, par)
  \/ \E c \in CatIds, n \in {"", "news"}, h \in BOOLEAN, par \in CatIds \cup {NoRef} :
       UpdateCategory(c, n, h, par)
  \/ \E c \in CatIds : DeleteCategory(c)
  \/ \E ids \in OrderLists, h \in BOOLEAN, par \in CatIds \cup {NoRef}, strip \in BOOLEAN :
       UpdateCategoryOrder(ids, h, par, strip)

SpecCategory == Init /\ [][NextCategory]_vars

(* CategoryService.getCategoryAndChildrenIds: findChildren calls itself for every child
   it finds.  "ends": every chain of children ended; "loops": a chain of children
   comes back to a category it went through, and the recursion never ends *)
RECURSIVE FindChildren(_, _)
FindChildren(parentId, path) ==
  LET children == {c \in DOMAIN cats : cats[c].parentCategory = parentId} IN
  IF \E c \in children : c \in path THEN "loops"
  ELSE IF \E c \in children : FindChildren(c, path \cup {c}) = "loops" THEN "loops"
  ELSE "ends"

GetCategoryAndChildrenIds(id) == FindChildren(id, {id})

(* reordering alone: two top-level categories, and every updateCategoryOrder request *)
NextReorder ==
  \/ \E n \in {"News", "Dev"} : CreateCategory(n, NoRef)
  \/ \E ids \in OrderLists, h \in BOOLEAN, par \in CatIds \cup {NoRef}, strip \in BOOLEAN :
       UpdateCategoryOrderOf(ids, h, par, strip)

SpecReorder == Init /\ [][NextReorder]_vars

-----------------------------------------------------------------------------
(* Follow relations *)

notFollow == <<now, posts, postSeq, comments, commentSeq, cats, catSeq, saved, pending, likeReq,
  notes, followReq>>

(* the two $pull updates of unfollowUser *)
FollowingAfterUnfollow(fg, a, b) == [fg EXCEPT ![a] = @ \ {b}]

FollowersKept(fs, a, b) == fs

FollowersAfterUnfollow(fs, a, b) == [fs EXCEPT ![b] = @ \ {a}]

(* the two $addToSet updates of followUser *)
FollowingAfterFollow(fg, a, b) == [fg EXCEPT ![a] = @ \cup {b}]

FollowersAfterFollow(fs, a, b) == [fs EXCEPT ![b] = @ \cup {a}]

(* the refusal inside the try block: abortTransaction, endSession, throw AppError(400).
   The catch block then calls session.abortTransaction() on the transaction that is
   already aborted; the driver rejects that with a MongoTransactionError, and this
   error leaves the call in place of the AppError *)
RefusedInTry == ServerError

(* what the call does after its checks and User.findOne: fail, or write *)
FollowPlan(op, a, b) ==
  IF a = b THEN BadRequest
  ELSE IF op = "follow" /\ b \in following[a] THEN RefusedInTry
  ELSE IF op = "unfollow" /\ b \notin following[a] THEN RefusedInTry
  ELSE "write"

(* the calls that followUser / unfollowUser make on their session, in order, on the
   path that plan names: none before the self check; start, then abort and end in the
   try block and abort again in the catch block, which throws before its endSession;
   start, commit and end when the updates went through *)
FollowSessionCalls(plan) ==
  IF plan = BadRequest THEN <<>>
  ELSE IF plan = RefusedInTry
    THEN <<"startTransaction", "abortTransaction", "endSession", "abortTransaction">>
  ELSE <<"startTransaction", "commitTransaction", "endSession">>

(* UserRelationService.followUser *)
FollowUser(a, b) ==
  /\ IF FollowPlan("follow", a, b) # "write"
       THEN /\ lastOp' = OpOn("follow", FollowPlan("follow", a, b),
                              FollowSessionCalls(FollowPlan("follow", a, b)), b, a)
            /\ UNCHANGED <<following, followers>>
       ELSE /\ following' = FollowingAfterFollow(following, a, b)
            /\ followers' = FollowersAfterFollow(followers, a, b)
            /\ lastOp' = OpOn("follow", OK, FollowSessionCalls("write"), b, a)
  /\ UNCHANGED notFollow

(* UserRelationService.unfollowUser *)
UnfollowUser(a, b) ==
  /\ IF FollowPlan("unfollow", a, b) # "write"
       THEN /\ lastOp' = OpOn("unfollow", FollowPlan("unfollow", a, b),
                              FollowSessionCalls(FollowPlan("unfollow", a, b)), b, a)
            /\ UNCHANGED <<following, followers>>
       ELSE /\ following' = FollowingAfterUnfollow(following, a, b)
            /\ followers' = FollowersAfterUnfollow(followers, a, b)
            /\ lastOp' = OpOn("unfollow", OK, FollowSessionCalls("write"), b, a)
  /\ UNCHANGED notFollow

NextFollow ==
  \/ \E a, b \in Users : FollowUser(a, b)
  \/ \E a, b \in Users : UnfollowUser(a, b)

SpecFollow == Init /\ [][NextFollow]_vars

(* Interleaved calls.  The two findByIdAndUpdate calls are given no session, so each is
   applied on its own when it is awaited: the checks and findOne are one step, the
   update of following is the next, the update of followers the last *)
notFollowReq == <<now, posts, postSeq, comments, commentSeq, cats, catSeq, saved, pending,
  likeReq, notes>>

FollowReq(op, a, b, pc) == [op |-> op, a |-> a, b |-> b, pc |-> pc]

BeginFollow(i, op, a, b) ==
  /\ followReq[i].op = "idle"
  /\ IF FollowPlan(op, a, b) # "write"
       THEN /\ lastOp' = OpOn(op, FollowPlan(op, a, b), "", b, a)
            /\ UNCHANGED followReq
       ELSE /\ followReq' = [followReq EXCEPT ![i] = FollowReq(op, a, b, "following")]
            /\ lastOp' = OpOn(op, "read", "", b, a)
  /\ UNCHANGED <<following, followers, notFollowReq>>

(* User.findByIdAndUpdate(currentUserId, ...) *)
WriteFollowing(i) ==
  LET req == followReq[i] IN
  /\ req.op # "idle" /\ req.pc = "following"
  /\ following' = IF req.op = "follow"
                    THEN FollowingAfterFollow(following, req.a, req.b)
                    ELSE FollowingAfterUnfollow(following, req.a, req.b)
  /\ followReq' = [followReq EXCEPT ![i].pc = "followers"]
  /\ lastOp' = OpOn(req.op, "following", "", req.b, req.a)
  /\ UNCHANGED <<followers, notFollowReq>>

(* User.findByIdAndUpdate(targetUserId, ...) and the commit; fails says that the update
   throws: the catch aborts a transaction that holds no write *)
WriteFollowers(i, fails) ==
  LET req == followReq[i] IN
  /\ req.op # "idle" /\ req.pc = "followers"
  /\ followers' = IF fails THEN followers
                    ELSE IF req.op = "follow"
                      THEN FollowersAfterFollow(followers, req.a, req.b)
                      ELSE FollowersAfterUnfollow(followers, req.a, req.b)
  /\ followReq' = [followReq EXCEPT ![i] = NoFollowReq]
  /\ lastOp' = OpOn(req.op, IF fails THEN ServerError ELSE OK, "", req.b, req.a)
  /\ UNCHANGED <<following, notFollowReq>>

NextFollowConc ==
  \/ \E i \in Procs, op \in {"follow", "unfollow"}, a, b \in Actors : BeginFollow(i, op, a, b)
  \/ \E i \in Procs : WriteFollowing(i)
  \/ \E i \in Procs, fails \in BOOLEAN : WriteFollowers(i, fails)

SpecFollowConc == Init /\ [][NextFollowConc]_vars

-----------------------------------------------------------------------------
(* Post operations *)

notPosts == <<now, comments, commentSeq, following, followers, cats, catSeq, saved, pending, likeReq,
  notes, followReq>>

(* PostService.createPost (no tagIds) *)
CreatePost(author, category, status, date) ==
  /\ postSeq < MaxPosts
  /\ IF category \notin DOMAIN cats
       THEN /\ UNCHANGED <<posts, postSeq>>
            /\ lastOp' = Op("create", NotFound, "", 0)
       ELSE /\ posts' = posts @@ ((postSeq + 1) :> NewPost(author, category, status, date, now))
            /\ postSeq' = postSeq + 1
            /\ lastOp' = Op("create", OK, "", 0)
  /\ UNCHANGED notPosts

(* an atomic run of a planned operation on post p *)
RunPlan(op, p, plan) ==
  /\ posts' = IF plan.res = OK THEN [posts EXCEPT ![p] = ApplyDelta(@, plan.delta)] ELSE posts
  /\ lastOp' = Op(op, plan.res, posts[p].status, 0)
  /\ UNCHANGED <<postSeq, notPosts>>

Missing(op) ==
  /\ lastOp' = Op(op, NotFound, "", 0)
  /\ UNCHANGED <<posts, postSeq, notPosts>>

UpdatePost(p, actor, status, date) ==
  IF p \in DOMAIN posts
    THEN RunPlan("update", p, UpdatePlan(posts[p], actor, status, date, now))
    ELSE Missing("update")

PublishPost(p, actor) ==
  IF p \in DOMAIN posts
    THEN RunPlan("publish", p, PublishPlan(posts[p], actor, now))
    ELSE Missing("publish")

UnpublishPost(p, actor) ==
  IF p \in DOMAIN posts
    THEN RunPlan("unpublish", p, UnpublishPlan(posts[p], actor, now))
    ELSE Missing("unpublish")

SchedulePost(p, actor, date) ==
  IF p \in DOMAIN posts
    THEN RunPlan("schedule", p, SchedulePlan(posts[p], actor, date, now))
    ELSE Missing("schedule")

PublishScheduledPosts ==
  LET due == {p \in DOMAIN posts : SweepMatches(posts[p], now)} IN
  /\ posts' = [p \in DOMAIN posts |->
                 IF p \in due THEN [posts[p] EXCEPT !.status = PUBLISHED] ELSE posts[p]]
  /\ lastOp' = Op("sweep", OK, "", Cardinality(due))
  /\ UNCHANGED <<postSeq, notPosts>>

StatusInputs == PostStatus \cup {""}
DateInputs == Dates \cup {NoDate}

NextPost ==
  \/ Tick
  \/ CreateFirstCategory
  \/ \E a \in Actors, c \in DOMAIN cats \cup {NoRef}, s \in StatusInputs, d \in DateInputs :
       CreatePost(a, c, s, d)
  \/ \E p \in PostIds, a \in Actors, s \in StatusInputs, d \in DateInputs : UpdatePost(p, a, s, d)
  \/ \E p \in PostIds, a \in Actors : PublishPost(p, a)
  \/ \E p \in PostIds, a \in Actors : UnpublishPost(p, a)
  \/ \E p \in PostIds, a \in Actors, d \in Dates : SchedulePost(p, a, d)
  \/ PublishScheduledPosts

SpecPost == Init /\ [][NextPost]_vars

-----------------------------------------------------------------------------
(* Interleaved post operations: findById and the checks are one step, the   *)
(* save / findByIdAndUpdate that sends the $set is a later step.            *)

notPending == <<now, postSeq, comments, commentSeq, following, followers, cats, catSeq, saved, likeReq,
  notes, followReq>>

Begin(i, op, p, actor, plan) ==
  /\ pending[i].op = "idle"
  /\ p \in DOMAIN posts
  /\ pending' = IF plan.res = OK
                  THEN [pending EXCEPT ![i] = [op |-> op, p |-> p, delta |-> plan.delta]]
                  ELSE pending
  /\ lastOp' = OpOn(op, IF plan.res = OK THEN "read" ELSE plan.res, posts[p].status, actor, p)
  /\ UNCHANGED <<posts, notPending>>

BeginUpdate(i, p, actor, status, date) ==
  Begin(i, "update", p, actor, UpdatePlan(posts[p], actor, status, date, now))

BeginPublish(i, p, actor) ==
  Begin(i, "publish", p, actor, PublishPlan(posts[p], actor, now))

BeginUnpublish(i, p, actor) ==
  Begin(i, "unpublish", p, actor, UnpublishPlan(posts[p], actor, now))

BeginSchedule(i, p, actor, date) ==
  Begin(i, "schedule", p, actor, SchedulePlan(posts[p], actor, date, now))

(* the write of a request whose post is gone: findByIdAndUpdate matches nothing and
   returns null, which updatePost turns into an error; save() matches nothing and
   rejects with DocumentNotFoundError.  Neither inserts a document *)
WriteToMissing == ServerError

Commit(i) ==
  /\ pending[i].op \notin {"idle", "savePost", "updateCategory", "createComment", "getPostDetail"}
  /\ IF pending[i].p \in DOMAIN posts
       THEN /\ posts' = [posts EXCEPT ![pending[i].p] = ApplyDelta(@, pending[i].delta)]
            /\ lastOp' = OpOn(pending[i].op, OK, posts[pending[i].p].status, 0, pending[i].p)
       ELSE /\ UNCHANGED posts
            /\ lastOp' = OpOn(pending[i].op, WriteToMissing, "", 0, pending[i].p)
  /\ pending' = [pending EXCEPT ![i] = Idle]
  /\ UNCHANGED notPending

CreateRacePost(author, category, status, date) ==
  postSeq < MaxRacePosts /\ CreatePost(author, category, status, date)

NextPostConc ==
  \/ Tick
  \/ CreateFirstCategory
  \/ \E a \in Actors, c \in DOMAIN cats, s \in StatusInputs, d \in DateInputs :
       CreateRacePost(a, c, s, d)
  \/ \E i \in Procs, p \in PostIds, a \in Actors, s \in StatusInputs, d \in DateInputs :
       BeginUpdate(i, p, a, s, d)
  \/ \E i \in Procs, p \in PostIds, a \in Actors : BeginPublish(i, p, a)
  \/ \E i \in Procs, p \in PostIds, a \in Actors : BeginUnpublish(i, p, a)
  \/ \E i \in Procs, p \in PostIds, a \in Actors, d \in Dates : BeginSchedule(i, p, a, d)
  \/ \E i \in Procs : Commit(i)
  \/ PublishScheduledPosts

SpecPostConc == Init /\ [][NextPostConc]_vars

-----------------------------------------------------------------------------
(* Comment documents *)

notComments == <<now, postSeq, following, followers, cats, catSeq, saved, pending, likeReq,
  notes, followReq>>

(* what createComment and likeComment leave alone: they may write a notification *)
notCreate == <<now, postSeq, following, followers, cats, catSeq, saved, pending, likeReq,
  followReq>>

VisibleOrDeleted(c) == c \in DOMAIN comments

(* CommentSchema.pre('find') / pre('findOne'): queries see no soft-deleted comment *)
Visible(c) == c \in DOMAIN comments /\ ~comments[c].isDeleted

(* CommentSchema.pre('save') on a new reply: the path under the parent it found *)
ReplyPathWithoutParent(parentDoc, parentId) == parentDoc.path

ReplyPath(parentDoc, parentId) ==
  IF parentDoc.path # <<>> THEN parentDoc.path \o <<parentId>> ELSE <<parentId>>

ReplyLevel(parentDoc) == parentDoc.level + 1

(* CommentSchema.pre('save') on a new document: level, path, and whether the post's
   commentCount is incremented; found says whether findById saw the parent *)
CommentPreSave(doc, found) ==
  IF doc.parentComment # NoRef
    THEN IF found
           THEN [doc |-> [doc EXCEPT !.level = ReplyLevel(comments[doc.parentComment]),
                                     !.path = ReplyPath(comments[doc.parentComment], doc.parentComment)],
                 inc |-> 1]
           ELSE [doc |-> doc, inc |-> 0]
    ELSE [doc |-> [doc EXCEPT !.path = <<>>], inc |-> 1]

(* the schema defaults of a new comment *)
NewComment(post, author, parent) ==
  [post |-> post, author |-> author, parentComment |-> parent, level |-> 1, path |-> <<>>,
   isEdited |-> FALSE, isApproved |-> TRUE, isDeleted |-> FALSE, deletedAt |-> NoDate,
   likeCount |-> 0, likes |-> NoLikes, isHighlighted |-> FALSE]

(* Post.findByIdAndUpdate(post, { $inc: { commentCount: d } }): no post, no change *)
IncCommentCount(ps, post, d) ==
  IF post \in DOMAIN ps THEN [ps EXCEPT ![post].commentCount = @ + d] ELSE ps

(* the comments of post p that are approved and not deleted *)
LiveCount(cs, p) ==
  Cardinality({c \in DOMAIN cs : cs[c].post = p /\ cs[c].isApproved /\ ~cs[c].isDeleted})

(* how far a stored counter is from the count it stands for; failed creates and repeated
   moderation move it without limit, so those steps are enabled only up to MaxDrift *)
Drift(stored, true) == IF stored >= true THEN stored - true ELSE true - stored

(* NotificationType of models/Notification *)
FOLLOW == "follow"
COMMENT == "comment"
REPLY == "reply"
LIKE_POST == "like_post"
LIKE_COMMENT == "like_comment"
SYSTEM == "system"

(* the fields of a Notification document that the services set from their arguments *)
Note(type, sender, recipient, post, comment) ==
  [type |-> type, sender |-> sender, recipient |-> recipient,
   relatedPost |-> post, relatedComment |-> comment, isRead |-> FALSE, readAt |-> NoDate]

(* NotificationService.createCommentNotification: the document it creates *)
CreateCommentNotification(post, comment, commenter, postAuthor) ==
  Note(COMMENT, commenter, postAuthor, post, comment)

(* NotificationService.createReplyNotification *)
CreateReplyNotification(post, comment, replier, recipient) ==
  Note(REPLY, replier, recipient, post, comment)

(* NotificationService.createLikeCommentNotification *)
CreateLikeCommentNotification(comment, liker, author) ==
  Note(LIKE_COMMENT, liker, author, comments[comment].post, comment)

(* NotificationService.createFollowNotification and createLikePostNotification: defined
   by the service, called by no other code of the repository *)
CreateFollowNotification(follower, followed) ==
  Note(FOLLOW, follower, followed, NoRef, NoRef)

CreateLikePostNotification(post, liker, author) ==
  Note(LIKE_POST, liker, author, post, NoRef)

CommentNotesToEveryone(post, author, parent, id) ==
  (IF parent = NoRef
     THEN <<CreateCommentNotification(post, id, author, posts[post].author)>>
     ELSE <<>>)
  \o (IF parent # NoRef /\ Visible(parent)
        THEN <<CreateReplyNotification(post, id, author, comments[parent].author)>>
        ELSE <<>>)

(* the notifications createComment sends for the comment id it has just created: one to
   the post's author for a top-level comment by somebody else, one to the parent's
   author for a reply by somebody else *)
CommentNotes(post, author, parent, id) ==
  (IF posts[post].author # author /\ parent = NoRef
     THEN <<CreateCommentNotification(post, id, author, posts[post].author)>>
     ELSE <<>>)
  \o (IF parent # NoRef /\ Visible(parent) /\ comments[parent].author # author
        THEN <<CreateReplyNotification(post, id, author, comments[parent].author)>>
        ELSE <<>>)

(* where a createComment call throws: nowhere, in Comment.create or the re-read, or in
   session.commitTransaction *)
FailPoints == {"none", "create", "commit"}

(* what became of the notification of a call: none was due, it was written, or its
   write threw and the catch around it logged the error *)
Notified(due, lost) == IF due = <<>> THEN "" ELSE IF lost THEN "dropped" ELSE "notified"

(* catch (notificationError) of createComment and catch (error) around the notification
   of likeComment: the error is logged and the call goes on to return its result *)
RethrowNotificationError(lost) == IF lost THEN ServerError ELSE OK

CatchNotificationError(lost) == OK

(* CommentService.createComment.  Comment.create runs the pre-save hook, whose $inc is
   sent without the session, and then the insert inside the transaction.  The
   notification is written next, without the session and before commitTransaction;
   lost says that its write throws, which the inner catch swallows.  fails says where
   the call throws and the transaction is aborted *)
CreateComment(post, author, parent, fails, lost) ==
  /\ commentSeq < MaxComments
  /\ IF post \notin DOMAIN posts \/ (parent # NoRef /\ ~Visible(parent))
       THEN /\ lastOp' = Op("createComment", NotFound, "", 0)
            /\ UNCHANGED <<posts, comments, commentSeq, notes>>
       ELSE LET made == CommentPreSave(NewComment(post, author, parent), Visible(parent))
                due == CommentNotes(post, author, parent, commentSeq + 1)
                sent == IF lost THEN <<>> ELSE due IN
            /\ posts' = IncCommentCount(posts, post, made.inc)
            /\ notes' = IF fails = "create" THEN notes ELSE notes \o sent
            /\ IF fails # "none"
                 THEN /\ Drift(posts[post].commentCount + made.inc, LiveCount(comments, post))
                           <= MaxDrift
                      /\ UNCHANGED <<comments, commentSeq>>
                      /\ lastOp' = OpOn("createComment", ServerError,
                                        IF fails = "create" THEN "" ELSE Notified(due, lost),
                                        0, post)
                 ELSE /\ comments' = comments @@ ((commentSeq + 1) :> made.doc)
                      /\ commentSeq' = commentSeq + 1
                      /\ lastOp' = OpOn("createComment", CatchNotificationError(lost),
                                        Notified(due, lost), 0, post)
  /\ UNCHANGED notCreate

(* CommentService.updateComment *)
UpdateComment(c, actor) ==
  /\ IF ~Visible(c)
       THEN lastOp' = Op("updateComment", NotFound, "", 0) /\ UNCHANGED comments
     ELSE IF comments[c].author # actor
       THEN lastOp' = Op("updateComment", Forbidden, "", 0) /\ UNCHANGED comments
     ELSE /\ comments' = [comments EXCEPT ![c].isEdited = TRUE]
          /\ lastOp' = Op("updateComment", OK, "", 0)
  /\ UNCHANGED <<posts, commentSeq, notComments>>

(* who asked for a deletion: the user and whether the controller saw the admin role *)
Asker(isAdmin) == IF isAdmin THEN "admin" ELSE "user"

(* CommentService.deleteComment *)
DeleteComment(c, user, isAdmin) ==
  /\ IF ~Visible(c)
       THEN /\ lastOp' = Op("deleteComment", NotFound, "", 0)
            /\ UNCHANGED <<posts, comments>>
     ELSE IF comments[c].author # user /\ ~isAdmin
       THEN /\ lastOp' = OpOn("deleteComment", Forbidden, Asker(isAdmin), user, c)
            /\ UNCHANGED <<posts, comments>>
     ELSE /\ comments' = [comments EXCEPT ![c].isDeleted = TRUE, ![c].deletedAt = now]
          /\ posts' = IncCommentCount(posts, comments[c].post, -1)
          /\ lastOp' = OpOn("deleteComment", OK, Asker(isAdmin), user, c)
  /\ UNCHANGED <<commentSeq, notComments>>

(* the $inc that moderateComment sends for the comment it loaded *)
CountDeltaOnChange(doc, isApproved) ==
  IF doc.isApproved = isApproved THEN 0 ELSE IF isApproved THEN 1 ELSE -1

CountDelta(doc, isApproved) == IF isApproved THEN 1 ELSE -1

(* CommentService.moderateComment; lastOp.n is 1 for isApproved true, 0 for false *)
ModerateComment(c, isApproved) ==
  /\ IF ~Visible(c)
       THEN lastOp' = Op("moderateComment", NotFound, "", 0) /\ UNCHANGED <<posts, comments>>
       ELSE LET d == CountDelta(comments[c], isApproved) IN
            /\ comments' = [comments EXCEPT ![c].isApproved = isApproved]
            /\ comments[c].post \in DOMAIN posts =>
                 Drift(posts[comments[c].post].commentCount + d,
                       LiveCount(comments', comments[c].post)) <= MaxDrift
            /\ posts' = IncCommentCount(posts, comments[c].post, d)
            /\ lastOp' = OpOn("moderateComment", OK, "", IF isApproved THEN 1 ELSE 0, c)
  /\ UNCHANGED <<commentSeq, notComments>>

(* the posts that carry the threads: drafts *)
CreateThreadPost(author, category) ==
  postSeq < MaxThreadPosts /\ CreatePost(author, category, "", NoDate)

NextComment ==
  \/ CreateFirstCategory
  \/ \E c \in DOMAIN cats : CreateThreadPost(MaxActors, c)
  \/ \E p \in PostIds, a \in Actors, c \in CommentIds \cup {NoRef}, f \in {"none", "create"} :
       CreateComment(p, a, c, f, FALSE)
  \/ \E c \in CommentIds, a \in Actors : UpdateComment(c, a)
  \/ \E c \in CommentIds, a \in Actors, adm \in BOOLEAN : DeleteComment(c, a, adm)
  \/ \E c \in CommentIds, b \in BOOLEAN : ModerateComment(c, b)

SpecComment == Init /\ [][NextComment]_vars

-----------------------------------------------------------------------------
(* Comment listings.  Comment.find and the finds that populate() sends run the       *)
(* pre('find') hook; findById runs the pre('findOne') hook.                          *)

(* the documents a Comment.find returns *)
Found == {c \in DOMAIN comments : Visible(c)}

(* the documents a Comment.countDocuments counts: no middleware is registered for it *)
Counted == DOMAIN comments

(* the populated virtual 'replies' of the listed comments *)
RepliesOf(cs) == {r \in Found : comments[r].parentComment \in cs}

(* CommentService.getPostComments: the top-level comments and their populated replies *)
GetPostComments(p) ==
  LET data == {c \in Found : comments[c].post = p /\ comments[c].level = 1
                             /\ comments[c].isApproved}
  IN [res |-> OK, data |-> data, nested |-> RepliesOf(data),
      total |-> Cardinality({c \in Counted : comments[c].post = p /\ comments[c].level = 1
                                              /\ comments[c].isApproved})]

(* CommentService.getCommentReplies *)
GetCommentReplies(c) ==
  IF ~Visible(c)
    THEN [res |-> NotFound, data |-> {}, nested |-> {}, total |-> 0]
    ELSE [res |-> OK,
          data |-> {r \in Found : comments[r].parentComment = c /\ comments[r].isApproved},
          nested |-> {c},
          total |-> Cardinality({r \in Counted : comments[r].parentComment = c
                                                  /\ comments[r].isApproved})]

(* CommentService.getUserComments: the comments and their populated parentComment *)
GetUserComments(u) ==
  LET data == {c \in Found : comments[c].author = u /\ comments[c].isApproved}
  IN [res |-> OK, data |-> data,
      nested |-> {d \in Found : \E c \in data : comments[c].parentComment = d},
      total |-> Cardinality({c \in Counted : comments[c].author = u /\ comments[c].isApproved})]

-----------------------------------------------------------------------------
(* Saved posts, post deletion and the comment routes of controllers/comment *)

notThread == <<now, postSeq, commentSeq, following, followers, cats, catSeq, pending, likeReq,
  notes, followReq>>

(* PostService.savePost *)
SavePost(p, user) ==
  /\ IF p \notin DOMAIN posts
       THEN lastOp' = Op("savePost", NotFound, "", 0) /\ UNCHANGED saved
     ELSE IF posts[p].status # PUBLISHED
       THEN lastOp' = Op("savePost", BadRequest, "", 0) /\ UNCHANGED saved
     ELSE /\ saved' = [saved EXCEPT ![user] = @ \cup {p}]
          /\ lastOp' = Op("savePost", OK, "", 0)
  /\ UNCHANGED <<posts, comments, notThread>>

(* PostService.unsavePost *)
UnsavePost(p, user) ==
  /\ saved' = [saved EXCEPT ![user] = @ \ {p}]
  /\ lastOp' = Op("unsavePost", OK, "", 0)
  /\ UNCHANGED <<posts, comments, notThread>>

(* PostSchema.post('deleteOne', { document: true, query: false }): the calls it is
   registered for, and what it does when it runs *)
PostDeleteOneHook == [document |-> TRUE, query |-> FALSE]

SavedAfterCascade(p) == [u \in DOMAIN saved |-> saved[u] \ {p}]

CommentsAfterCascade(p) ==
  [c \in {d \in DOMAIN comments : comments[d].post # p} |-> comments[c]]

(* PostService.deletePost: Post.deleteOne({ _id }) is a query on the model, so the
   middleware runs only if it is registered for queries *)
DeletePost(p, actor) ==
  /\ IF p \notin DOMAIN posts
       THEN /\ lastOp' = Op("deletePost", NotFound, "", 0)
            /\ UNCHANGED <<posts, saved, comments>>
     ELSE IF posts[p].author # actor
       THEN /\ lastOp' = OpOn("deletePost", Forbidden, "", actor, p)
            /\ UNCHANGED <<posts, saved, comments>>
     ELSE /\ posts' = [q \in DOMAIN posts \ {p} |-> posts[q]]
          /\ saved' = IF PostDeleteOneHook.query THEN SavedAfterCascade(p) ELSE saved
          /\ comments' = IF PostDeleteOneHook.query THEN CommentsAfterCascade(p) ELSE comments
          /\ lastOp' = OpOn("deletePost", OK, "", actor, p)
  /\ UNCHANGED notThread

(* deleteComment of controllers/comment, routed as DELETE /comments/:commentId: the
   author's comment and its direct replies are removed from the collection *)
DeleteCommentRoute(c, user) ==
  /\ IF ~Visible(c) \/ comments[c].author # user
       THEN /\ lastOp' = OpOn("deleteComment", NotFound, Asker(FALSE), user, c)
            /\ UNCHANGED comments
       ELSE /\ comments' = [d \in {e \in DOMAIN comments :
                                     e # c /\ comments[e].parentComment # c} |-> comments[d]]
            /\ lastOp' = OpOn("deleteComment", OK, Asker(FALSE), user, c)
  /\ UNCHANGED <<posts, saved, notThread>>

(* the posts of the thread specification: published, so that they can be saved *)
CreateOpenPost(author, category) == CreatePost(author, category, PUBLISHED, NoDate)

(* comment threads on posts of one author, with both deletion routes *)
NextThread ==
  \/ CreateFirstCategory
  \/ \E c \in DOMAIN cats : CreateOpenPost(MaxActors, c)
  \/ \E p \in PostIds, a \in Actors, c \in CommentIds \cup {NoRef} :
       CreateComment(p, a, c, "none", FALSE)
  \/ \E c \in CommentIds, a \in Actors, adm \in BOOLEAN : DeleteComment(c, a, adm)
  \/ \E c \in CommentIds, a \in Actors : DeleteCommentRoute(c, a)

SpecThread == Init /\ [][NextThread]_vars

(* posts that are saved, commented by one user, and deleted *)
NextPostDelete ==
  \/ CreateFirstCategory
  \/ \E a \in Actors, c \in DOMAIN cats : CreateOpenPost(a, c)
  \/ \E p \in PostIds, c \in CommentIds \cup {NoRef} : CreateComment(p, MaxActors, c, "none", FALSE)
  \/ \E p \in PostIds, a \in Actors : SavePost(p, a)
  \/ \E p \in PostIds, a \in Actors : UnsavePost(p, a)
  \/ \E p \in PostIds, a \in Actors : DeletePost(p, a)

SpecPostDelete == Init /\ [][NextPostDelete]_vars

(* Calls that run while a post is deleted.  savePost between its Post.findById and its
   User.findByIdAndUpdate: the post and the user it will add the post to *)
BeginSave(i, p, user) ==
  /\ pending[i].op = "idle"
  /\ IF p \notin DOMAIN posts
       THEN lastOp' = OpOn("savePost", NotFound, "", user, p) /\ UNCHANGED pending
     ELSE IF posts[p].status # PUBLISHED
       THEN lastOp' = OpOn("savePost", BadRequest, "", user, p) /\ UNCHANGED pending
     ELSE /\ pending' = [pending EXCEPT ![i] =
                           [op |-> "savePost", p |-> p, delta |-> NoDelta, user |-> user]]
          /\ lastOp' = OpOn("savePost", "read", "", user, p)
  /\ UNCHANGED <<posts, notPending>>

(* User.findByIdAndUpdate(userId, { $addToSet: { savedPosts: postId } }) *)
CommitSave(i) ==
  /\ pending[i].op = "savePost"
  /\ saved' = [saved EXCEPT ![pending[i].user] = @ \cup {pending[i].p}]
  /\ pending' = [pending EXCEPT ![i] = Idle]
  /\ lastOp' = OpOn("savePost", OK, "", pending[i].user, pending[i].p)
  /\ UNCHANGED <<now, posts, postSeq, comments, commentSeq, following, followers, cats,
                 catSeq, likeReq, notes, followReq>>

-----------------------------------------------------------------------------
(* Likes and views.  likePost, unlikePost, likeComment and unlikeComment load the      *)
(* document, change likes and likeCount in memory and save().  save() sends a push    *)
(* as $push, which raises the document version without comparing it, and a replaced   *)
(* array as $set of the whole array, which is applied only if the version is still    *)
(* the loaded one and fails with a VersionError otherwise.                            *)

notLikes == <<now, postSeq, commentSeq, following, followers, cats, catSeq, saved, pending,
  notes, followReq>>

(* what the like calls leave alone: likeComment may write a notification *)
notLiked == <<now, postSeq, commentSeq, following, followers, cats, catSeq, saved, pending,
  followReq>>

(* likes.length *)
RECURSIVE CountUpTo(_, _)
CountUpTo(l, k) == IF k = 0 THEN 0 ELSE l[k] + CountUpTo(l, k - 1)

Length(l) == CountUpTo(l, MaxActors)

(* likes.some(id => id equals userId) *)
NeverLiked(doc, user) == FALSE

AlreadyLiked(doc, user) == doc.likes[user] > 0

(* likes.push(userId) *)
Pushed(l, user) == [l EXCEPT ![user] = @ + 1]

(* likes.filter(id => id differs from userId) *)
Filtered(l, user) == [l EXCEPT ![user] = 0]

IsLike(op) == op \in {"likePost", "likeComment"}

OnPost(op) == op \in {"likePost", "unlikePost"}

(* what the call does after findById: fail, return without writing, or save *)
LikePlan(op, doc, user) ==
  CASE op = "likePost" -> IF AlreadyLiked(doc, user) THEN BadRequest ELSE "save"
    [] op = "unlikePost" -> IF ~AlreadyLiked(doc, user) THEN BadRequest ELSE "save"
    [] op = "likeComment" -> IF AlreadyLiked(doc, user) THEN OK ELSE "save"
    [] op = "unlikeComment" -> IF Filtered(doc.likes, user) = doc.likes THEN OK ELSE "save"

LikeReq(op, on, user, loaded) ==
  [op |-> op, on |-> on, user |-> user, loaded |-> loaded, stale |-> FALSE]

(* the version check of the update that save() sends *)
VersionConflict(req) == ~IsLike(req.op) /\ req.stale

(* the stored document after the update that save() sends *)
Saved(doc, req) ==
  IF IsLike(req.op)
    THEN [doc EXCEPT !.likes = Pushed(@, req.user),
                     !.likeCount = Length(Pushed(req.loaded, req.user))]
    ELSE [doc EXCEPT !.likes = Filtered(req.loaded, req.user),
                     !.likeCount = Length(Filtered(req.loaded, req.user))]

(* findById of the call: a post, or a comment that is not soft-deleted *)
LikeTarget(op, on) == IF OnPost(op) THEN on \in DOMAIN posts ELSE Visible(on)

LikeDoc(op, on) == IF OnPost(op) THEN posts[on] ELSE comments[on]

(* the save of request req reaches the store *)
Store(req) ==
  IF VersionConflict(req) \/ ~LikeTarget(req.op, req.on)
    THEN UNCHANGED <<posts, comments>>
    ELSE IF OnPost(req.op)
      THEN posts' = [posts EXCEPT ![req.on] = Saved(@, req)] /\ UNCHANGED comments
      ELSE comments' = [comments EXCEPT ![req.on] = Saved(@, req)] /\ UNCHANGED posts

StoreResult(req) ==
  IF VersionConflict(req) \/ ~LikeTarget(req.op, req.on) THEN ServerError ELSE OK

(* the notification a call sends after its save: likeComment by somebody other than the
   comment's author; likePost, unlikePost and unlikeComment send none *)
LikeNotes(op, on, user) ==
  IF op = "likeComment" /\ comments[on].author # user
    THEN <<CreateLikeCommentNotification(on, user, comments[on].author)>>
    ELSE <<>>

(* createLikeCommentNotification throws: its write fails, or populate('post') found no
   post and post._id is read from null *)
LikeNoteLost(op, on, lost) ==
  lost \/ (op = "likeComment" /\ comments[on].post \notin DOMAIN posts)

LikeNoteCount == Cardinality({k \in DOMAIN notes : notes[k].type = LIKE_COMMENT})

(* the notification step of a call whose save succeeded; notifications of likes are
   written up to MaxLikeNotes *)
Notify(op, on, user, lost) ==
  IF LikeNotes(op, on, user) = <<>> \/ LikeNoteLost(op, on, lost)
    THEN UNCHANGED notes
    ELSE LikeNoteCount < MaxLikeNotes /\ notes' = notes \o LikeNotes(op, on, user)

(* one whole call: likePost, unlikePost, likeComment or unlikeComment *)
LikeCall(op, on, user, lost) ==
  /\ IF ~LikeTarget(op, on)
       THEN lastOp' = Op(op, NotFound, "", 0) /\ UNCHANGED <<posts, comments, notes>>
     ELSE IF LikePlan(op, LikeDoc(op, on), user) # "save"
       THEN /\ lastOp' = OpOn(op, LikePlan(op, LikeDoc(op, on), user), "", user, on)
            /\ UNCHANGED <<posts, comments, notes>>
     ELSE /\ Store(LikeReq(op, on, user, LikeDoc(op, on).likes))
          /\ Notify(op, on, user, lost)
          /\ lastOp' = OpOn(op, CatchNotificationError(LikeNoteLost(op, on, lost)),
                            Notified(LikeNotes(op, on, user), LikeNoteLost(op, on, lost)),
                            user, on)
  /\ UNCHANGED <<likeReq, notLiked>>

LikePost(p, user) == LikeCall("likePost", p, user, FALSE)

UnlikePost(p, user) == LikeCall("unlikePost", p, user, FALSE)

LikeComment(c, user, lost) == LikeCall("likeComment", c, user, lost)

UnlikeComment(c, user) == LikeCall("unlikeComment", c, user, FALSE)

(* PostService.getPostDetail with incrementViews *)
GetPostDetail(p) ==
  /\ IF p \notin DOMAIN posts \/ posts[p].status # PUBLISHED
       THEN lastOp' = Op("getPostDetail", NotFound, "", 0) /\ UNCHANGED posts
       ELSE /\ posts[p].viewCount < MaxViews
            /\ posts' = [posts EXCEPT ![p].viewCount = @ + 1]
            /\ lastOp' = Op("getPostDetail", OK, "", 0)
  /\ UNCHANGED <<comments, likeReq, notLikes>>

(* the comments that are liked: top-level comments of one user *)
CreateLikedComment(p) ==
  commentSeq < MaxLikedComments /\ CreateComment(p, MaxActors, NoRef, "none", FALSE)

NextLike ==
  \/ CreateFirstCategory
  \/ \E c \in DOMAIN cats : CreateOpenPost(MaxActors, c)
  \/ \E p \in PostIds : CreateLikedComment(p)
  \/ \E p \in PostIds, u \in Actors : LikePost(p, u)
  \/ \E p \in PostIds, u \in Actors : UnlikePost(p, u)
  \/ \E c \in CommentIds, u \in Actors, lost \in BOOLEAN : LikeComment(c, u, lost)
  \/ \E c \in CommentIds, u \in Actors : UnlikeComment(c, u)
  \/ \E p \in PostIds : GetPostDetail(p)

SpecLike == Init /\ [][NextLike]_vars

(* Interleaved calls: findById and the checks are one step, save() is a later step *)
BeginLike(i, op, on, user) ==
  /\ likeReq[i].op = "idle"
  /\ LikeTarget(op, on)
  /\ IF LikePlan(op, LikeDoc(op, on), user) # "save"
       THEN /\ lastOp' = OpOn(op, LikePlan(op, LikeDoc(op, on), user), "", user, on)
            /\ UNCHANGED likeReq
       ELSE /\ likeReq' = [likeReq EXCEPT ![i] = LikeReq(op, on, user, LikeDoc(op, on).likes)]
            /\ lastOp' = OpOn(op, "read", "", user, on)
  /\ UNCHANGED <<posts, comments, notLikes>>

(* save(): the write, and every other loaded copy of the document is now behind *)
CommitLike(i, lost) ==
  LET req == likeReq[i] IN
  /\ req.op # "idle"
  /\ Store(req)
  /\ IF StoreResult(req) = OK THEN Notify(req.op, req.on, req.user, lost) ELSE UNCHANGED notes
  /\ likeReq' = [j \in Procs |->
                   IF j = i THEN NoLikeReq
                   ELSE IF /\ StoreResult(req) = OK
                           /\ likeReq[j].op # "idle"
                           /\ OnPost(likeReq[j].op) = OnPost(req.op)
                           /\ likeReq[j].on = req.on
                     THEN [likeReq[j] EXCEPT !.stale = TRUE]
                     ELSE likeReq[j]]
  /\ lastOp' = OpOn(req.op, StoreResult(req), "", req.user, req.on)
  /\ UNCHANGED notLiked

CreateRaceOpenPost(c) == postSeq < MaxRacePosts /\ CreateOpenPost(MaxActors, c)

LikeOps == {"likePost", "unlikePost", "likeComment", "unlikeComment"}

NextLikeConc ==
  \/ CreateFirstCategory
  \/ \E c \in DOMAIN cats : CreateRaceOpenPost(c)
  \/ \E p \in PostIds : CreateLikedComment(p)
  \/ \E i \in Procs, op \in LikeOps, on \in PostIds \cup CommentIds, u \in Actors :
       BeginLike(i, op, on, u)
  \/ \E i \in Procs : CommitLike(i, FALSE)

SpecLikeConc == Init /\ [][NextLikeConc]_vars

(* CommentService.highlightComment; lastOp.n is 1 for isHighlighted true, 0 for false *)
HighlightComment(c, isHighlighted) ==
  /\ IF ~Visible(c)
       THEN lastOp' = Op("highlightComment", NotFound, "", 0) /\ UNCHANGED comments
       ELSE /\ comments' = [comments EXCEPT ![c].isHighlighted = isHighlighted]
            /\ lastOp' = OpOn("highlightComment", OK, "", IF isHighlighted THEN 1 ELSE 0, c)
  /\ UNCHANGED <<posts, commentSeq, notComments>>

(* every call of the comment service that loads one comment, on the top-level comments
   of one post, deleted or not *)
NextDeleted ==
  \/ CreateFirstCategory
  \/ \E c \in DOMAIN cats : CreateRaceOpenPost(c)
  \/ \E p \in PostIds : CreateLikedComment(p)
  \/ \E c \in CommentIds, a \in Actors : UpdateComment(c, a)
  \/ \E c \in CommentIds, a \in Actors, adm \in BOOLEAN : DeleteComment(c, a, adm)
  \/ \E c \in CommentIds, u \in Actors : LikeComment(c, u, FALSE)
  \/ \E c \in CommentIds, u \in Actors : UnlikeComment(c, u)
  \/ \E c \in CommentIds, b \in BOOLEAN : ModerateComment(c, b)
  \/ \E c \in CommentIds, b \in BOOLEAN : HighlightComment(c, b)

SpecDeleted == Init /\ [][NextDeleted]_vars

(* createComment between its checks and Comment.create: the post, the author and the
   parent that the checks of the service found *)
ReplyReq(post, author, parent) ==
  [op |-> "createComment", p |-> post, delta |-> [author |-> author, parent |-> parent]]

(* what a createComment call between its checks and its insert leaves alone *)
notReply == <<now, postSeq, following, followers, cats, catSeq, saved, likeReq, followReq>>

(* CommentService.createComment up to the check of the parent: Post.findById and
   Comment.findById of the parent, 404 when either finds nothing *)
BeginReply(i, post, author, parent) ==
  /\ pending[i].op = "idle"
  /\ IF post \notin DOMAIN posts \/ ~Visible(parent)
       THEN /\ lastOp' = OpOn("createComment", NotFound, "", parent, post)
            /\ UNCHANGED pending
       ELSE /\ pending' = [pending EXCEPT ![i] = ReplyReq(post, author, parent)]
            /\ lastOp' = OpOn("createComment", "read", "", parent, post)
  /\ UNCHANGED <<posts, comments, commentSeq, notes, notReply>>

(* the rest of the call: Comment.create, whose pre-save hook looks the parent up again
   with findById and sets level and path and sends the $inc only if it finds it, then
   the notification, whose own findById of the parent decides whether one is sent *)
CommitReply(i) ==
  LET req == pending[i]
      made == CommentPreSave(NewComment(req.p, req.delta.author, req.delta.parent),
                             Visible(req.delta.parent)) IN
  /\ req.op = "createComment"
  /\ commentSeq < MaxComments
  /\ posts' = IncCommentCount(posts, req.p, made.inc)
  /\ comments' = comments @@ ((commentSeq + 1) :> made.doc)
  /\ commentSeq' = commentSeq + 1
  /\ notes' = notes \o CommentNotes(req.p, req.delta.author, req.delta.parent, commentSeq + 1)
  /\ pending' = [pending EXCEPT ![i] = Idle]
  /\ lastOp' = OpOn("createComment", OK, "", req.delta.parent, req.p)
  /\ UNCHANGED notReply

(* replies to the comments of one post, created while their parents are deleted *)
NextReplyConc ==
  \/ CreateFirstCategory
  \/ \E c \in DOMAIN cats : CreateRaceOpenPost(c)
  \/ \E p \in PostIds : CreateLikedComment(p)
  \/ \E i \in Procs, p \in PostIds, a \in Actors, c \in CommentIds : BeginReply(i, p, a, c)
  \/ \E i \in Procs : CommitReply(i)
  \/ \E c \in CommentIds, a \in Actors : DeleteComment(c, a, FALSE)

SpecReplyConc == Init /\ [][NextReplyConc]_vars

(* getPostDetail between its findOne and its save: the post and the viewCount it loaded *)
DetailReq(p, loaded) == [op |-> "getPostDetail", p |-> p, delta |-> loaded]

(* post.viewCount += 1 on the loaded document; save() sends the sum as a $set *)
ViewCountSet(loaded) == loaded + 1

(* PostService.getPostDetail with incrementViews up to the result of findOne, whose
   query asks for status published *)
BeginDetail(i, p) ==
  /\ pending[i].op = "idle"
  /\ IF p \notin DOMAIN posts \/ posts[p].status # PUBLISHED
       THEN /\ lastOp' = OpOn("getPostDetail", NotFound, "", 0, p)
            /\ UNCHANGED pending
       ELSE /\ posts[p].viewCount < MaxViews
            /\ pending' = [pending EXCEPT ![i] = DetailReq(p, posts[p].viewCount)]
            /\ lastOp' = OpOn("getPostDetail", "read", posts[p].status, 0, p)
  /\ UNCHANGED <<posts, notPending>>

(* the post.save() of the call *)
CommitDetail(i) ==
  LET req == pending[i] IN
  /\ req.op = "getPostDetail"
  /\ IF req.p \in DOMAIN posts
       THEN /\ posts' = [posts EXCEPT ![req.p].viewCount = ViewCountSet(req.delta)]
            /\ lastOp' = OpOn("getPostDetail", OK, "", 0, req.p)
       ELSE /\ UNCHANGED posts
            /\ lastOp' = OpOn("getPostDetail", WriteToMissing, "", 0, req.p)
  /\ pending' = [pending EXCEPT ![i] = Idle]
  /\ UNCHANGED notPending

(* one post that is published, unpublished and read by interleaved calls *)
NextViews ==
  \/ CreateFirstCategory
  \/ \E a \in Actors, c \in DOMAIN cats, st \in StatusInputs : CreateRacePost(a, c, st, NoDate)
  \/ \E p \in PostIds, a \in Actors : PublishPost(p, a)
  \/ \E p \in PostIds, a \in Actors : UnpublishPost(p, a)
  \/ \E i \in Procs, p \in PostIds : BeginDetail(i, p)
  \/ \E i \in Procs : CommitDetail(i)

SpecViews == Init /\ [][NextViews]_vars

(* One post, the author-only operations, likes and saves of it as interleaved calls of
   any actor, the sweep, and deletePost at any point between their reads and writes *)
NextPostGone ==
  \/ Tick
  \/ CreateFirstCategory
  \/ \E a \in Actors, c \in DOMAIN cats, s \in StatusInputs, d \in DateInputs :
       CreateRacePost(a, c, s, d)
  \/ \E p \in PostIds, a \in Actors, s \in StatusInputs, d \in DateInputs :
       BeginUpdate(MaxProcs, p, a, s, d)
  \/ \E p \in PostIds, a \in Actors : BeginPublish(MaxProcs, p, a)
  \/ \E p \in PostIds, a \in Actors : BeginUnpublish(MaxProcs, p, a)
  \/ \E p \in PostIds, a \in Actors, d \in Dates : BeginSchedule(MaxProcs, p, a, d)
  \/ \E p \in PostIds, u \in Actors : BeginSave(MaxProcs, p, u)
  \/ Commit(MaxProcs)
  \/ CommitSave(MaxProcs)
  \/ \E op \in {"likePost", "unlikePost"}, p \in PostIds, u \in Actors :
       BeginLike(MaxProcs, op, p, u)
  \/ CommitLike(MaxProcs, FALSE)
  \/ \E p \in PostIds, a \in Actors : DeletePost(p, a)
  \/ PublishScheduledPosts

SpecPostGone == Init /\ [][NextPostGone]_vars

(* Interleaved updateCategory calls that set a parent.  findById and the ancestor walk
   read outside the session; category.save({ session }) writes parentCategory of the one
   category, so two calls on different categories both commit *)
notCatReq == <<now, posts, postSeq, comments, commentSeq, following, followers, catSeq,
  saved, likeReq, notes, followReq>>

ParentPlan(id, parent) ==
  IF id \notin DOMAIN cats THEN NotFound
  ELSE IF parent = id THEN BadRequest
  ELSE IF parent # NoRef /\ parent \notin DOMAIN cats THEN NotFound
  ELSE IF parent # NoRef /\ AncestorWalk(parent, id, {parent}) = "cycle" THEN BadRequest
  ELSE "save"

BeginUpdateCategory(i, id, parent) ==
  /\ pending[i].op = "idle"
  /\ ParentPlan(id, parent) = "save" /\ parent # NoRef =>
       AncestorWalk(parent, id, {parent}) = "clear"
  /\ IF ParentPlan(id, parent) # "save"
       THEN lastOp' = UpdateOp(ParentPlan(id, parent), id, TRUE, parent) /\ UNCHANGED pending
       ELSE /\ pending' = [pending EXCEPT ![i] =
                             [op |-> "updateCategory", p |-> id, delta |-> NoDelta,
                              parent |-> parent]]
            /\ lastOp' = UpdateOp("read", id, TRUE, parent)
  /\ UNCHANGED <<cats, notCatReq>>

(* category.save({ session }) and the commit; a category deleted meanwhile is not
   written *)
CommitUpdateCategory(i) ==
  /\ pending[i].op = "updateCategory"
  /\ IF pending[i].p \in DOMAIN cats
       THEN /\ cats' = [cats EXCEPT ![pending[i].p].parentCategory = pending[i].parent]
            /\ lastOp' = UpdateOp(OK, pending[i].p, TRUE, pending[i].parent)
       ELSE /\ UNCHANGED cats
            /\ lastOp' = UpdateOp(WriteToMissing, pending[i].p, TRUE, pending[i].parent)
  /\ pending' = [pending EXCEPT ![i] = Idle]
  /\ UNCHANGED notCatReq

NextCategoryConc ==
  \/ \E n \in CatNames, par \in CatIds \cup {NoRef} : CreateCategory(n, par)
  \/ \E i \in Procs, c \in CatIds, par \in CatIds \cup {NoRef} : BeginUpdateCategory(i, c, par)
  \/ \E i \in Procs : CommitUpdateCategory(i)

SpecCategoryConc == Init /\ [][NextCategoryConc]_vars

-----------------------------------------------------------------------------
(* Notifications of comments and comment likes: one post of the last actor, comments   *)
(* and likes by every actor, and one fault per call: the notification write throws,    *)
(* or the call itself throws at one of its fail points.                                *)

NextNotify ==
  \/ CreateFirstCategory
  \/ \E c \in DOMAIN cats : CreateRaceOpenPost(c)
  \/ \E p \in PostIds, a \in Actors, c \in CommentIds \cup {NoRef}, f \in FailPoints,
        lost \in BOOLEAN :
       (lost => f = "none") /\ CreateComment(p, a, c, f, lost)
  \/ \E c \in 1..MaxLikedComments, u \in Actors, lost \in BOOLEAN : LikeComment(c, u, lost)
  \/ \E c \in 1..MaxLikedComments, u \in Actors : UnlikeComment(c, u)

SpecNotify == Init /\ [][NextNotify]_vars

-----------------------------------------------------------------------------
(* The notifications of a user.  The id of a notification is its place in notes; a     *)
(* deleted notification leaves Removed at its place, which no query matches.           *)

Removed ==
  [type |-> "removed", sender |-> NoRef, recipient |-> NoRef, relatedPost |-> NoRef,
   relatedComment |-> NoRef, isRead |-> FALSE, readAt |-> NoDate]

NoteIds == 1..MaxNotes

Stored(k) == k \in DOMAIN notes /\ notes[k] # Removed

OwnedByAnyone(k, u) == Stored(k)

(* the filter { _id: notificationId, recipient: userId } *)
Owned(k, u) == Stored(k) /\ notes[k].recipient = u

notNotes == <<now, posts, postSeq, comments, commentSeq, following, followers, cats, catSeq,
  saved, pending, likeReq, followReq>>

(* NotificationService.markAsRead *)
MarkAsRead(k, u) ==
  /\ IF ~Owned(k, u)
       THEN lastOp' = OpOn("markAsRead", NotFound, "", u, k) /\ UNCHANGED notes
     ELSE IF notes[k].isRead
       THEN lastOp' = OpOn("markAsRead", OK, "", u, k) /\ UNCHANGED notes
     ELSE /\ notes' = [notes EXCEPT ![k].isRead = TRUE, ![k].readAt = now]
          /\ lastOp' = OpOn("markAsRead", OK, "", u, k)
  /\ UNCHANGED notNotes

(* NotificationService.markAllAsRead; ids = {} is no id list *)
MarkAllAsRead(u, ids) ==
  LET match == {k \in DOMAIN notes :
                 Owned(k, u) /\ ~notes[k].isRead /\ (ids = {} \/ k \in ids)} IN
  /\ notes' = [k \in DOMAIN notes |->
                 IF k \in match THEN [notes[k] EXCEPT !.isRead = TRUE, !.readAt = now]
                 ELSE notes[k]]
  /\ lastOp' = OpOn("markAllAsRead", OK, "", u, Cardinality(match))
  /\ UNCHANGED notNotes

(* NotificationService.deleteNotification *)
DeleteNotification(k, u) ==
  /\ IF Owned(k, u)
       THEN /\ notes' = [notes EXCEPT ![k] = Removed]
            /\ lastOp' = OpOn("deleteNotification", OK, "", u, k)
       ELSE lastOp' = OpOn("deleteNotification", NotFound, "", u, k) /\ UNCHANGED notes
  /\ UNCHANGED notNotes

(* NotificationService.deleteNotifications *)
DeleteNotifications(u, ids, deleteAllRead) ==
  LET match == IF ids # {} THEN {k \in DOMAIN notes : Owned(k, u) /\ k \in ids}
               ELSE IF deleteAllRead THEN {k \in DOMAIN notes : Owned(k, u) /\ notes[k].isRead}
               ELSE {} IN
  /\ notes' = [k \in DOMAIN notes |-> IF k \in match THEN Removed ELSE notes[k]]
  /\ lastOp' = OpOn("deleteNotifications", OK, "", u, Cardinality(match))
  /\ UNCHANGED notNotes

(* the documents createSystemNotification hands to insertMany.  It passes the text under
   the key message and the link under linkTo, which the schema does not have, so the
   documents have no content *)
SystemDoc(recipient) ==
  [note |-> Note(SYSTEM, NoRef, recipient, NoRef, NoRef), content |-> FALSE]

(* NotificationSchema: content is required *)
Validates(doc) == doc.content

(* the users of User.find({}) in id order *)
AllUsers == [k \in 1..MaxUsers |-> k]

(* NotificationService.createSystemNotification; all is recipients = 'all'.  insertMany
   validates every document before it writes any *)
CreateSystemNotification(recipients, all) ==
  LET resolved == IF all THEN AllUsers ELSE recipients
      docs == [k \in DOMAIN resolved |-> SystemDoc(resolved[k])] IN
  /\ IF resolved = <<>>
       THEN lastOp' = Op("createSystemNotification", BadRequest, "", 0) /\ UNCHANGED notes
     ELSE IF \A k \in DOMAIN docs : Validates(docs[k])
       THEN /\ notes' = notes \o [k \in DOMAIN docs |-> docs[k].note]
            /\ lastOp' = Op("createSystemNotification", OK, "", Len(resolved))
     ELSE /\ lastOp' = Op("createSystemNotification", ServerError, "", Len(resolved))
          /\ UNCHANGED notes
  /\ UNCHANGED notNotes

(* the recipient lists of a broadcast: up to MaxOrderLen user ids *)
RecipientLists == UNION {[1..n -> Users] : n \in 0..MaxOrderLen}

NextInbox ==
  \/ Tick
  \/ CreateFirstCategory
  \/ \E c \in DOMAIN cats : CreateRaceOpenPost(c)
  \/ \E p \in PostIds, a \in Actors, c \in CommentIds \cup {NoRef} :
       CreateComment(p, a, c, "none", FALSE)
  \/ \E k \in NoteIds, u \in Actors : MarkAsRead(k, u)
  \/ \E u \in Actors, ids \in SUBSET NoteIds : MarkAllAsRead(u, ids)
  \/ \E k \in NoteIds, u \in Actors : DeleteNotification(k, u)
  \/ \E u \in Actors, ids \in SUBSET NoteIds, all \in BOOLEAN : DeleteNotifications(u, ids, all)
  \/ \E rs \in RecipientLists, all \in BOOLEAN : CreateSystemNotification(rs, all)

SpecInbox == Init /\ [][NextInbox]_vars

-----------------------------------------------------------------------------
(* Claims about the post lifecycle *)

(* C4: every published post has a publishDate, and it is not later than now *)
PublishedNotFuture ==
  \A p \in DOMAIN posts :
    posts[p].status = PUBLISHED =>
      posts[p].publishDate # NoDate /\ posts[p].publishDate <= now

(* C4 witness: a sweep has just published a post whose date is already past *)
SweptPostIsPublished ==
  /\ lastOp.op = "sweep" /\ lastOp.n >= 1
  /\ \E p \in DOMAIN posts : posts[p].status = PUBLISHED /\ posts[p].publishDate < now

(* C5: a post enters status scheduled, by create, update or schedule, only with a
   stored publishDate strictly later than the clock at that moment *)
ScheduledOnlyInFuture ==
  [][\A p \in DOMAIN posts' :
       (/\ posts'[p].status = SCHEDULED
        /\ (p \notin DOMAIN posts \/ posts[p].status # SCHEDULED))
       => posts'[p].publishDate > now]_vars

(* C6: a post's publishDate is set exactly when its status is published or scheduled *)
PublishDateIffLive ==
  \A p \in DOMAIN posts :
    (posts[p].publishDate # NoDate) <=> (posts[p].status \in {PUBLISHED, SCHEDULED})

ListedArcs ==
  {<<DRAFT, PUBLISHED>>, <<DRAFT, SCHEDULED>>, <<SCHEDULED, PUBLISHED>>,
   <<PUBLISHED, DRAFT>>, <<SCHEDULED, DRAFT>>}

(* C7 as stated: every status change is one of the five listed arcs *)
OnlyListedArcs ==
  [][\A p \in DOMAIN posts :
       posts'[p].status # posts[p].status =>
         <<posts[p].status, posts'[p].status>> \in ListedArcs]_vars

(* C7 amended: every status change is one of the five listed arcs or
   published -> scheduled, and that sixth arc is made only by update and schedule *)
ListedArcsOrReschedule ==
  [][\A p \in DOMAIN posts :
       posts'[p].status # posts[p].status =>
         \/ <<posts[p].status, posts'[p].status>> \in ListedArcs
         \/ /\ posts[p].status = PUBLISHED /\ posts'[p].status = SCHEDULED
            /\ lastOp'.op \in {"update", "schedule"}]_vars

(* C7 witness: schedule has just moved a published post to scheduled *)
PublishedWasRescheduled ==
  /\ lastOp.op = "schedule" /\ lastOp.res = OK /\ lastOp.prev = PUBLISHED
  /\ \E p \in DOMAIN posts : posts[p].status = SCHEDULED /\ posts[p].publishDate > now

(* C8: a sweep publishes exactly the scheduled posts whose date is not after now,
   changes nothing else and no publishDate, returns the number of posts it changed,
   and a sweep right after a sweep changes nothing and returns 0 *)
SweepExact ==
  [][lastOp'.op = "sweep" =>
       /\ DOMAIN posts' = DOMAIN posts
       /\ \A p \in DOMAIN posts :
            /\ posts'[p].publishDate = posts[p].publishDate
            /\ IF /\ posts[p].status = SCHEDULED
                  /\ posts[p].publishDate # NoDate
                  /\ posts[p].publishDate <= now
                 THEN posts'[p].status = PUBLISHED
                 ELSE posts'[p] = posts[p]
       /\ lastOp'.n = Cardinality({p \in DOMAIN posts : posts'[p] # posts[p]})
       /\ (lastOp.op = "sweep" => lastOp'.n = 0 /\ posts' = posts)]_vars

(* C8 witness: a sweep published one post and left a post scheduled for later alone *)
SweepLeftFuturePost ==
  /\ lastOp.op = "sweep" /\ lastOp.n = 1
  /\ \E p, q \in DOMAIN posts :
       /\ posts[p].status = PUBLISHED
       /\ posts[q].status = SCHEDULED /\ posts[q].publishDate > now

(* C9: once every interleaved request has finished, every published post has a
   publishDate that is not later than now *)
QuiescentPublishedNotFuture ==
  (\A i \in Procs : pending[i].op = "idle") => PublishedNotFuture

-----------------------------------------------------------------------------
(* Claims about comment threads *)

ApprovedLive(p) ==
  {c \in DOMAIN comments :
     comments[c].post = p /\ comments[c].isApproved /\ ~comments[c].isDeleted}

(* C1: a post's commentCount equals the number of its comments that are approved and
   not deleted *)
CommentCountMatches ==
  \A p \in DOMAIN posts : posts[p].commentCount = Cardinality(ApprovedLive(p))

(* C10: a comment without parent has level 1 and an empty path; a reply has its
   parent's level plus one and the parent's path followed by the parent's id *)
LevelAndPathFollowParent ==
  \A c \in DOMAIN comments :
    IF comments[c].parentComment = NoRef
      THEN comments[c].level = 1 /\ comments[c].path = <<>>
      ELSE /\ comments[c].parentComment \in DOMAIN comments
           /\ comments[c].level = comments[comments[c].parentComment].level + 1
           /\ comments[c].path =
                Append(comments[comments[c].parentComment].path, comments[c].parentComment)

(* C10 witness: a reply to a reply whose parent has since been edited, rejected and
   soft-deleted *)
ReplyOutlivesParent ==
  \E c \in DOMAIN comments :
    /\ comments[c].level = 3
    /\ LET par == comments[comments[c].parentComment] IN
         par.isDeleted /\ par.isEdited /\ ~par.isApproved

(* C11: a createComment call either inserts one comment and raises the post's
   commentCount by exactly 1, or fails and leaves the comments and every counter as
   they were *)
CreateCommentAllOrNothing ==
  [][lastOp'.op = "createComment" =>
       IF lastOp'.res = OK
         THEN /\ DOMAIN comments' = DOMAIN comments \cup {commentSeq + 1}
              /\ \A c \in DOMAIN comments : comments'[c] = comments[c]
              /\ posts'[lastOp'.on].commentCount = posts[lastOp'.on].commentCount + 1
         ELSE comments' = comments /\ posts' = posts]_vars

(* C12: after a successful deletePost the post is gone, no user's saved set holds it
   and no comment refers to it *)
DeletedPostLeavesNothing ==
  (lastOp.op = "deletePost" /\ lastOp.res = OK) =>
    /\ lastOp.on \notin DOMAIN posts
    /\ \A u \in DOMAIN saved : lastOp.on \notin saved[u]
    /\ \A c \in DOMAIN comments : comments[c].post # lastOp.on

(* C17: deleting an existing comment succeeds exactly when the caller is its author or
   an admin; then the record stays, with isDeleted set and deletedAt recorded, and the
   post's commentCount drops by exactly 1; otherwise the call fails Forbidden and
   changes nothing; and no step removes a comment record *)
CommentDeleteIsSoft ==
  [][/\ DOMAIN comments \subseteq DOMAIN comments'
     /\ (lastOp'.op = "deleteComment" /\ Visible(lastOp'.on)) =>
          LET c == lastOp'.on IN
          IF comments[c].author = lastOp'.n \/ lastOp'.prev = "admin"
            THEN /\ lastOp'.res = OK
                 /\ comments'[c].isDeleted /\ comments'[c].deletedAt # NoDate
                 /\ comments' = [comments EXCEPT ![c].isDeleted = TRUE,
                                                 ![c].deletedAt = comments'[c].deletedAt]
                 /\ posts' = [posts EXCEPT ![comments[c].post].commentCount = @ - 1]
            ELSE /\ lastOp'.res = Forbidden
                 /\ comments' = comments /\ posts' = posts]_vars

(* C18: a reply is on the same post as its parent *)
ReplyOnParentPost ==
  \A c \in DOMAIN comments :
    (comments[c].parentComment # NoRef /\ comments[c].parentComment \in DOMAIN comments)
      => comments[c].post = comments[comments[c].parentComment].post

(* C19: every post's viewCount, likeCount and commentCount is non-negative *)
CountersNonNegative ==
  \A p \in DOMAIN posts :
    posts[p].viewCount >= 0 /\ posts[p].likeCount >= 0 /\ posts[p].commentCount >= 0

(* C20: a moderateComment call that finds the comment sets its isApproved to the
   requested value and changes the post's commentCount by +1 for true and by -1 for
   false, whatever isApproved was before; it changes nothing else *)
ModerateAlwaysCounts ==
  [][(lastOp'.op = "moderateComment" /\ lastOp'.res = OK) =>
       LET c == lastOp'.on
           isApproved == lastOp'.n = 1
       IN /\ comments' = [comments EXCEPT ![c].isApproved = isApproved]
          /\ posts' = [posts EXCEPT ![comments[c].post].commentCount =
                                       IF isApproved THEN @ + 1 ELSE @ - 1]]_vars

(* C20 witness: the only comment, created approved, has been approved again and the
   counter stands at 2 *)
ApprovedTwice ==
  /\ lastOp.op = "moderateComment" /\ lastOp.res = OK /\ lastOp.n = 1
  /\ commentSeq = 1 /\ comments[1].isApproved
  /\ posts[comments[1].post].commentCount = 2

(* the comments a listing hands out: the listed ones and the populated ones *)
Returned(listing) == listing.data \cup listing.nested

(* C15: getPostComments, getCommentReplies and getUserComments return no comment whose
   isDeleted flag is set *)
ListingsHideDeleted ==
  /\ \A p \in PostIds : \A c \in Returned(GetPostComments(p)) : ~comments[c].isDeleted
  /\ \A a \in CommentIds : \A c \in Returned(GetCommentReplies(a)) : ~comments[c].isDeleted
  /\ \A u \in Actors : \A c \in Returned(GetUserComments(u)) : ~comments[c].isDeleted

(* C15 witness: a post has a soft-deleted top-level comment and a listed one, and the
   listed one has a soft-deleted reply *)
DeletedBesideListed ==
  \E p \in DOMAIN posts, a, b, r \in DOMAIN comments :
    /\ comments[a].post = p /\ comments[a].level = 1 /\ comments[a].isDeleted
    /\ b \in GetPostComments(p).data
    /\ comments[r].parentComment = b /\ comments[r].isDeleted
    /\ comments[r].author = comments[b].author
    /\ b \in GetUserComments(comments[b].author).data

(* C16: when top-level comment A is soft-deleted and has a reply B that is neither
   deleted nor rejected, getPostComments does not return A, and getCommentReplies(A)
   succeeds and returns B *)
RepliesOfDeletedParentListed ==
  \A a, b \in DOMAIN comments :
    (/\ comments[a].parentComment = NoRef /\ comments[a].isDeleted
     /\ comments[b].parentComment = a /\ ~comments[b].isDeleted /\ comments[b].isApproved)
    => /\ a \notin Returned(GetPostComments(comments[a].post))
       /\ GetCommentReplies(a).res = OK
       /\ b \in GetCommentReplies(a).data

-----------------------------------------------------------------------------
(* Claims about likes and counters *)

(* C13: liking a post that the user already likes fails and changes nothing; liking a
   comment that the user already likes succeeds and changes nothing *)
SecondLikeAsymmetry ==
  [][/\ (/\ lastOp'.op = "likePost"
         /\ lastOp'.on \in DOMAIN posts
         /\ posts[lastOp'.on].likes[lastOp'.n] > 0)
          => (lastOp'.res = BadRequest /\ posts' = posts /\ comments' = comments)
     /\ (/\ lastOp'.op = "likeComment"
         /\ Visible(lastOp'.on)
         /\ comments[lastOp'.on].likes[lastOp'.n] > 0)
          => (lastOp'.res = OK /\ posts' = posts /\ comments' = comments)]_vars

(* C13 witness: a user who likes a post and a comment has just liked the post again
   and was refused *)
PostLikeRefused ==
  /\ lastOp.op = "likePost" /\ lastOp.res = BadRequest
  /\ posts[lastOp.on].likes[lastOp.n] = 1 /\ posts[lastOp.on].likeCount = 1
  /\ \E c \in DOMAIN comments : comments[c].likes[lastOp.n] = 1 /\ comments[c].likeCount = 1

LikesConsistent(doc) ==
  /\ doc.likeCount = Length(doc.likes)
  /\ \A u \in Actors : doc.likes[u] <= 1

(* C14: once every like and unlike call has finished, likeCount equals the number of
   users in likes, and no user is in likes more than once, on every post and comment *)
QuiescentLikesConsistent ==
  (\A i \in Procs : likeReq[i].op = "idle") =>
    /\ \A p \in DOMAIN posts : LikesConsistent(posts[p])
    /\ \A c \in DOMAIN comments : LikesConsistent(comments[c])

-----------------------------------------------------------------------------
(* Claims about follow relations and the category tree *)

(* C2: b is in a.following exactly when a is in b.followers *)
FollowMutual ==
  \A a, b \in Users : (b \in following[a]) <=> (a \in followers[b])

(* C2 witness: an unfollow has succeeded and another follow relation still stands *)
UnfollowedOneOfTwo ==
  /\ lastOp.op = "unfollow" /\ lastOp.res = OK
  /\ \E a, b \in Users : b \in following[a] /\ a \notin following[b]

(* the proper ancestors of category c that exist, by following parentCategory *)
RECURSIVE AncestorsOf(_, _)
AncestorsOf(c, seen) ==
  LET up == cats[c].parentCategory IN
  IF up = NoRef \/ up \notin DOMAIN cats THEN seen
  ELSE IF up \in seen THEN seen
  ELSE AncestorsOf(up, seen \cup {up})

(* C3: no category is its own parent or its own ancestor *)
CategoryTreeAcyclic ==
  \A c \in DOMAIN cats : c \notin AncestorsOf(c, {})

-----------------------------------------------------------------------------
(* Claims about notifications *)

(* the notifications a step has added *)
NewNotes == SubSeq(notes', Len(notes) + 1, Len(notes'))

(* C21: when the write of a notification fails during createComment or likeComment, the
   call still succeeds and writes what it writes otherwise: the new comment and the
   incremented commentCount, or the liker in likes and the incremented likeCount *)
NotificationFailureIsSwallowed ==
  [][lastOp'.prev = "dropped" =>
       /\ lastOp'.res = OK
       /\ lastOp'.op \in {"createComment", "likeComment"}
       /\ lastOp'.op = "createComment" =>
            /\ commentSeq' = commentSeq + 1
            /\ DOMAIN comments' = DOMAIN comments \cup {commentSeq'}
            /\ \A c \in DOMAIN comments : comments'[c] = comments[c]
            /\ posts'[lastOp'.on].commentCount = posts[lastOp'.on].commentCount + 1
       /\ lastOp'.op = "likeComment" =>
            /\ comments[lastOp'.on].likes[lastOp'.n] = 0
            /\ comments'[lastOp'.on].likes[lastOp'.n] = 1
            /\ comments'[lastOp'.on].likeCount = Length(comments'[lastOp'.on].likes)
            /\ posts' = posts]_vars

(* a comment was created although its notification was lost, and a like was kept
   although its notification was lost *)
CommentKeptWithoutNote ==
  /\ lastOp.op = "createComment" /\ lastOp.prev = "dropped" /\ lastOp.res = OK
  /\ commentSeq \in DOMAIN comments
  /\ \A k \in DOMAIN notes : notes[k].relatedComment # commentSeq

(* the notifications the claim expects for the comment id that a step created *)
ExpectedNotes(id) ==
  LET doc == comments'[id] IN
  IF doc.parentComment = NoRef
    THEN IF posts[doc.post].author # doc.author
           THEN <<Note(COMMENT, doc.author, posts[doc.post].author, doc.post, id)>>
           ELSE <<>>
    ELSE IF comments[doc.parentComment].author # doc.author
           THEN <<Note(REPLY, doc.author, comments[doc.parentComment].author, doc.post, id)>>
           ELSE <<>>

NoSelfNotes == \A k \in DOMAIN notes : notes[k].sender # notes[k].recipient

(* C22 as stated: every successful createComment adds exactly the one notification of
   its case (comment to the post's author, reply to the parent's author, none for
   one's own post or comment), and no notification has its sender as recipient *)
CommentNotifiesExactlyOnce ==
  [][/\ lastOp'.op = "createComment" /\ lastOp'.res = OK => NewNotes = ExpectedNotes(commentSeq')
     /\ NoSelfNotes']_vars

(* C22, amended: the same, except that a successful createComment whose notification
   write failed adds no notification *)
CommentNotifiesOnceUnlessLost ==
  [][/\ lastOp'.op = "createComment" /\ lastOp'.res = OK =>
          NewNotes = IF lastOp'.prev = "dropped" THEN <<>> ELSE ExpectedNotes(commentSeq')
     /\ NoSelfNotes']_vars

(* a reply has just notified the parent's author, after a comment notified the post's *)
CommentAndReplyNotified ==
  /\ lastOp.op = "createComment" /\ lastOp.res = OK /\ lastOp.prev = "notified"
  /\ notes # <<>> /\ notes[Len(notes)].type = REPLY
  /\ notes[Len(notes)].relatedComment = commentSeq
  /\ \E k \in DOMAIN notes : notes[k].type = COMMENT

(* C23: no notification is about a comment whose creation was aborted: the comment of
   every notification is a stored comment *)
NotesOnlyForStoredComments ==
  \A k \in DOMAIN notes :
    notes[k].relatedComment # NoRef => notes[k].relatedComment \in DOMAIN comments

(* C24: a successful follow of b by a adds exactly one follow notification from a to b,
   and a successful likePost by somebody other than the author adds exactly one
   like_post notification to the author *)
FollowAndLikePostNotify ==
  [][/\ lastOp'.op = "follow" /\ lastOp'.res = OK =>
          \E a \in Users, b \in Users :
            /\ b \in following'[a] \ following[a]
            /\ NewNotes = <<CreateFollowNotification(a, b)>>
     /\ lastOp'.op = "likePost" /\ lastOp'.res = OK /\ posts[lastOp'.on].author # lastOp'.n =>
          NewNotes = <<CreateLikePostNotification(lastOp'.on, lastOp'.n,
                                                  posts[lastOp'.on].author)>>]_vars

-----------------------------------------------------------------------------
(* Claims about follow and unfollow *)

(* C29: follow(a, a), follow(a, b) by a follower of b and unfollow(a, b) by a
   non-follower each fail with the 400 of their AppError, and change no following or
   followers set *)
RefusedFollowIsDomainError ==
  [][/\ lastOp'.op \in {"follow", "unfollow"}
     /\ \/ lastOp'.on = lastOp'.n
        \/ lastOp'.op = "follow" /\ lastOp'.n \in following[lastOp'.on]
        \/ lastOp'.op = "unfollow" /\ lastOp'.n \notin following[lastOp'.on]
     => /\ lastOp'.res = BadRequest
        /\ UNCHANGED <<following, followers>>]_vars

(* C30: when no follow or unfollow call is in flight, b is in a.following exactly when
   a is in b.followers *)
QuiescentFollowMutual ==
  (\A i \in Procs : followReq[i].op = "idle") =>
    \A a \in Users, b \in Users : b \in following[a] <=> a \in followers[b]

-----------------------------------------------------------------------------
(* Claims about category updates *)

(* C25: updateCategory of an existing category X with data.parent X, or with data.parent
   a category that has X among its ancestors, fails with 400 and changes no category *)
CyclicParentRejected ==
  [][/\ lastOp'.op = "updateCategory"
     /\ lastOp'.on \in DOMAIN cats
     /\ lastOp'.n # NoRef
     /\ \/ lastOp'.n = lastOp'.on
        \/ lastOp'.n \in DOMAIN cats /\ lastOp'.on \in AncestorsOf(lastOp'.n, {})
     => lastOp'.res = BadRequest /\ cats' = cats]_vars

(* a category was refused its grandchild as parent *)
GrandchildRefusedAsParent ==
  /\ lastOp.op = "updateCategory" /\ lastOp.res = BadRequest
  /\ lastOp.on \in DOMAIN cats /\ lastOp.n \in DOMAIN cats
  /\ lastOp.n # lastOp.on
  /\ cats[lastOp.n].parentCategory \notin {NoRef, lastOp.on}
  /\ lastOp.on \in AncestorsOf(lastOp.n, {})
  /\ \A c \in DOMAIN cats : cats[c].name # "news"

-----------------------------------------------------------------------------
(* Claims about authorship and deleted posts *)

AuthorOnly == {"update", "publish", "unpublish", "schedule", "deletePost"}

(* C26: update, publish, unpublish, schedule and delete of an existing post by an actor
   who is not its author fail with 403 and leave every post as it was *)
NonAuthorForbidden ==
  [][/\ lastOp'.op \in AuthorOnly
     /\ lastOp'.n \in Actors
     /\ lastOp'.on \in DOMAIN posts
     /\ posts[lastOp'.on].author # lastOp'.n
     => lastOp'.res = Forbidden /\ posts' = posts /\ pending' = pending]_vars

(* a published post has just been refused to an actor who is not its author *)
StrangerRefused ==
  /\ lastOp.op = "unpublish" /\ lastOp.res = Forbidden
  /\ lastOp.on \in DOMAIN posts
  /\ posts[lastOp.on].author # lastOp.n
  /\ posts[lastOp.on].status = PUBLISHED

(* the posts that were created and deleted *)
Gone == {p \in 1..postSeq : p \notin DOMAIN posts}

(* C27: a deleted post stays deleted, no call on it succeeds, and no call writes it
   anywhere: it is added to no user's saved posts *)
DeletedPostIsTerminal ==
  [][\A p \in Gone :
       /\ p \notin DOMAIN posts'
       /\ \A u \in Actors : p \in saved'[u] => p \in saved[u]
       /\ lastOp'.on = p => lastOp'.res # OK]_vars

-----------------------------------------------------------------------------
(* Claims about references *)

(* C28: the category of every post is a stored category, and the parent of every
   category that has one is a stored category *)
ReferencesExist ==
  /\ \A p \in DOMAIN posts : posts[p].category \in DOMAIN cats
  /\ \A c \in DOMAIN cats :
       cats[c].parentCategory # NoRef => cats[c].parentCategory \in DOMAIN cats

-----------------------------------------------------------------------------
(* Claims about a user's notifications *)

InboxOps == {"markAsRead", "markAllAsRead", "deleteNotification", "deleteNotifications"}

(* C31: markAsRead, markAllAsRead, deleteNotification and deleteNotifications called for
   user u leave every notification of another recipient as it is; markAsRead and
   deleteNotification aimed at another user's notification fail with 404 and change
   nothing; markAsRead of a notification that is already read changes nothing *)
InboxScopedToRecipient ==
  [][lastOp'.op \in InboxOps =>
       /\ \A k \in DOMAIN notes : notes[k].recipient # lastOp'.n => notes'[k] = notes[k]
       /\ DOMAIN notes' = DOMAIN notes
       /\ /\ lastOp'.op \in {"markAsRead", "deleteNotification"}
          /\ lastOp'.on \in DOMAIN notes
          /\ notes[lastOp'.on].recipient # lastOp'.n
          => lastOp'.res = NotFound /\ notes' = notes
       /\ /\ lastOp'.op = "markAsRead"
          /\ lastOp'.on \in DOMAIN notes
          /\ notes[lastOp'.on].isRead
          => notes' = notes]_vars

(* a user was refused another user's notification, which is stored and still unread,
   next to a notification that its recipient has read *)
StrangersNoteRefused ==
  /\ lastOp.op = "deleteNotification" /\ lastOp.res = NotFound
  /\ Stored(lastOp.on) /\ notes[lastOp.on].recipient # lastOp.n
  /\ ~notes[lastOp.on].isRead
  /\ \E k \in DOMAIN notes : Stored(k) /\ notes[k].isRead /\ notes[k].readAt < now

(* C32: a broadcast to a non-empty list of recipients, or to all users, succeeds, adds
   exactly one unread system notification without sender for each recipient in order,
   and returns their number *)
BroadcastOnePerRecipient ==
  [][lastOp'.op = "createSystemNotification" /\ lastOp'.n > 0 =>
       /\ lastOp'.res = OK
       /\ Len(NewNotes) = lastOp'.n
       /\ \A k \in DOMAIN NewNotes :
            /\ NewNotes[k].type = SYSTEM
            /\ NewNotes[k].sender = NoRef
            /\ ~NewNotes[k].isRead]_vars

-----------------------------------------------------------------------------
(* Claims about reordering categories *)

(* C33: updateCategoryOrder of existing ids gives each listed category its 0-based
   place in the list as order; with parentId supplied every listed category gets it as
   parent (none when it is null or empty), without parentId no parent changes; the
   categories that are not listed keep order and parent; when an id does not exist the
   call fails with 404 and changes no category *)
ReorderSetsOrderAndParent ==
  [][lastOp'.op = "updateCategoryOrder" =>
       LET ids == lastOp'.on IN
       IF \E k \in DOMAIN ids : ids[k] \notin DOMAIN cats
         THEN lastOp'.res = NotFound /\ cats' = cats
         ELSE /\ lastOp'.res = OK
              /\ DOMAIN cats' = DOMAIN cats
              /\ \A k \in DOMAIN ids :
                   /\ cats'[ids[k]].order = k - 1
                   /\ cats'[ids[k]].parentCategory =
                        IF lastOp'.prev = "parentId" THEN lastOp'.n
                        ELSE cats[ids[k]].parentCategory
              /\ \A c \in DOMAIN cats :
                   (\A k \in DOMAIN ids : ids[k] # c) => cats'[c] = cats[c]]_vars

-----------------------------------------------------------------------------
(* Claims about the category tree under concurrency and about its walks *)

(* C34: when no updateCategory call is in flight, no category is its own ancestor *)
QuiescentCategoryTreeAcyclic ==
  (\A i \in Procs : pending[i].op = "idle") => CategoryTreeAcyclic

(* C35: in every reachable category tree the ancestor walk of updateCategory ends for
   every category and every proposed parent, and the descendant collection of
   getCategoryAndChildrenIds ends for every category *)
WalksEnd ==
  \A c \in DOMAIN cats :
    /\ GetCategoryAndChildrenIds(c) = "ends"
    /\ \A par \in DOMAIN cats : AncestorWalk(par, c, {par}) # "loops"

-----------------------------------------------------------------------------
(* Claims about transactions *)

(* how often call is among calls *)
Times(calls, call) == Cardinality({k \in DOMAIN calls : calls[k] = call})

(* C36: a call that started a transaction commits or aborts it exactly once, ends the
   session exactly once, and calls abortTransaction only while the transaction is
   neither committed nor aborted and the session is not ended *)
TransactionEndsOnce ==
  [][lastOp'.op \in {"follow", "unfollow"} /\ lastOp'.prev # <<>> =>
       LET calls == lastOp'.prev IN
       /\ Times(calls, "commitTransaction") + Times(calls, "abortTransaction") = 1
       /\ Times(calls, "endSession") = 1
       /\ \A k \in DOMAIN calls :
            calls[k] = "abortTransaction" =>
              \A j \in 1..(k - 1) : calls[j] = "startTransaction"]_vars

-----------------------------------------------------------------------------
(* Claims about deleted comments *)

(* a call of updateComment, likeComment, unlikeComment, moderateComment,
   highlightComment or deleteComment on comment c *)
CallOn(c) ==
  \/ \E a \in Actors : UpdateComment(c, a)
  \/ \E a \in Actors, adm \in BOOLEAN : DeleteComment(c, a, adm)
  \/ \E u \in Actors : LikeComment(c, u, FALSE)
  \/ \E u \in Actors : UnlikeComment(c, u)
  \/ \E b \in BOOLEAN : ModerateComment(c, b)
  \/ \E b \in BOOLEAN : HighlightComment(c, b)

SoftDeleted(c) == c \in DOMAIN comments /\ comments[c].isDeleted

(* C37: a call on a soft-deleted comment is answered NotFound and changes no comment
   and no post, and a soft-deleted comment is never changed by any call *)
DeletedCommentIsGone ==
  [][\A c \in CommentIds :
       SoftDeleted(c) =>
         /\ c \in DOMAIN comments' /\ comments'[c] = comments[c]
         /\ CallOn(c) => lastOp'.res = NotFound /\ comments' = comments /\ posts' = posts]_vars

(* a second deleteComment on a deleted comment of a post has just been refused *)
SecondDeleteRefused ==
  /\ lastOp.op = "deleteComment" /\ lastOp.res = NotFound
  /\ \E c \in DOMAIN comments : comments[c].isDeleted /\ comments[c].post \in DOMAIN posts

-----------------------------------------------------------------------------
(* Claims about replies created while the parent is deleted *)

(* C38: a createComment of a reply either answers NotFound and changes no comment and
   no post, or stores a reply one level below its parent, with the path that leads to
   the parent, and adds exactly one to the post's commentCount *)
ReplyUnderParentOrNotFound ==
  [][lastOp'.op = "createComment" /\ lastOp'.n \in CommentIds =>
       IF lastOp'.res = OK
         THEN LET parent == lastOp'.n
                  reply == comments'[commentSeq'] IN
              /\ commentSeq' = commentSeq + 1
              /\ reply.parentComment = parent
              /\ reply.level = comments[parent].level + 1
              /\ reply.path = ReplyPath(comments[parent], parent)
              /\ posts'[lastOp'.on].commentCount = posts[lastOp'.on].commentCount + 1
         ELSE comments' = comments /\ posts' = posts]_vars

-----------------------------------------------------------------------------
(* Claims about the totals of the comment listings *)

(* the total of a listing is the number of comments on all its pages *)
TotalIsListed(listing) == listing.res = OK => listing.total = Cardinality(listing.data)

(* C39: getPostComments, getCommentReplies and getUserComments report as total the
   number of comments they return over all pages, and count no soft-deleted comment *)
ListingTotalsMatch ==
  /\ \A p \in PostIds : TotalIsListed(GetPostComments(p))
  /\ \A c \in CommentIds : TotalIsListed(GetCommentReplies(c))
  /\ \A u \in Actors : TotalIsListed(GetUserComments(u))

-----------------------------------------------------------------------------
(* Claims about post views *)

(* C40: getPostDetail hands out a post only if it is published, every call that
   succeeds adds exactly one to the stored viewCount, and nothing else moves it, so n
   successful calls add n however they interleave *)
EveryViewCounts ==
  [][/\ lastOp'.op = "getPostDetail" /\ lastOp'.res = "read" =>
          posts[lastOp'.on].status = PUBLISHED
     /\ \A p \in DOMAIN posts \cap DOMAIN posts' :
          posts'[p].viewCount =
            posts[p].viewCount
              + (IF lastOp'.op = "getPostDetail" /\ lastOp'.res = OK /\ lastOp'.on = p
                   THEN 1 ELSE 0)]_vars

====
